---- MODULE Spec2Model ----
(***************************************************************************)
(* A model of libfna (src/fna.c, src/fna.h): the FASTA / FASTQ / GFA       *)
(* reader.  Bytes are integers 0..255, the stream is a position in the     *)
(* file, a record is the byte vector the drivers build plus the field      *)
(* offsets they compute into it.                                           *)
(***************************************************************************)
EXTENDS Integers, Sequences, FiniteSets, TLC

VARIABLES
    frame,      \* the call that is run one step at a time, or NULL
    path,       \* the path argument of fna_init (a tuple of characters)
    exists,     \* whether zfopen can open the path
    params,     \* the fna_params_t passed to fna_init
    file,       \* the content of the file (a sequence of bytes)
    entries,    \* the entries (lines) the file was written from
    fna,        \* the context (struct fna_context_s), NULL before fna_init
    pc,         \* the caller: "start", "open", "closed"
    seq,        \* the record the caller holds, or NULL
    ret,        \* what the last fna_read returned: "none", "absent", "record"
    out,        \* the views of the records returned so far
    live,       \* the blocks that are allocated
    nblk,       \* the number of blocks allocated so far
    freed,      \* the addresses the last fna_seq_free passed to free()
    ub          \* the undefined behaviour met so far (a set of tags)

vars == <<frame, path, exists, params, file, entries, fna, pc, seq, ret, out,
          live, nblk, freed, ub>>

\* the null pointer to a record or a context, and the null value of the
\* fields fp and path of a context
NULL == [type |-> 0]
null == "NULL"

(***************************************************************************)
(* Characters.                                                             *)
(***************************************************************************)
EOF == -1
NUL == 0
TAB == 9
LF == 10
VT == 11
CR == 13
SP == 32
PLUS == 43
MINUS == 45
DOT == 46
GT == 62
AT == 64

\* (uint8_t)c of an int c: EOF (-1) becomes 0xff
u8(c) == c % 256

\* (char)c: a char is kept as its unsigned value, (char)EOF is 0xff
char(c) == c % 256

(***************************************************************************)
(* enum fna_flag_encode, fna_format, fna_options, fna_seq_type, fna_status *)
(***************************************************************************)
FNA_ASCII == 0
FNA_2BIT == 1
FNA_2BITPACKED == 2
FNA_4BIT == 3
FNA_4BITPACKED == 4

FNA_UNKNOWN == 0
FNA_FASTA == 1
FNA_FASTQ == 2
FNA_FAST5 == 3
FNA_GFA == 4

FNA_SKIP_QUAL == 1

FNA_SEGMENT == 1
FNA_LINK == 2

FNA_SUCCESS == 0
FNA_ERROR_FILE_OPEN == 1
FNA_ERROR_UNKNOWN_FORMAT == 2
FNA_ERROR_BROKEN_FORMAT == 3
FNA_ERROR_OUT_OF_MEM == 4
FNA_ERROR_UNSUPPORTED_VERSION == 5
FNA_EOF == -1

(***************************************************************************)
(* Sequence helpers.                                                       *)
(***************************************************************************)
Min(a, b) == IF a < b THEN a ELSE b

Zeros(n) == [i \in 1..n |-> 0]

RECURSIVE Flatten(_)
Flatten(ss) == IF ss = <<>> THEN <<>> ELSE Head(ss) \o Flatten(Tail(ss))

(***************************************************************************)
(* The byte classification tables: 0 data, 2 skipped, 1 and 0xff end.      *)
(***************************************************************************)
_non_printable(b, n) == IF b < 32 THEN n ELSE 0

\* the table with the entry of 0xff, the byte EOF is cast to, as a space
space_table_eof_is_space(b) ==
    IF b \in {NUL, SP, TAB, VT, 255} THEN 1 ELSE 0

space_table(b) ==
    IF b \in {NUL, SP, TAB, VT} THEN 1 ELSE IF b = 255 THEN 255 ELSE 0

delim_line(b) ==
    IF b \in {CR, LF} THEN 1 ELSE IF b = 255 THEN 255 ELSE 0

delim_fasta_seq(b) ==
    IF b = GT THEN 1 ELSE IF b = 255 THEN 255 ELSE _non_printable(b, 2)

delim_fastq_seq(b) ==
    IF b = AT THEN 1 ELSE IF b = 255 THEN 255 ELSE _non_printable(b, 2)

delim_fastq_qual(b) ==
    IF b = PLUS THEN 1 ELSE IF b = 255 THEN 255 ELSE _non_printable(b, 2)

delim_gfa_field(b) ==
    IF b \in {TAB, CR, LF} THEN 1 ELSE IF b = 255 THEN 255 ELSE 0

\* delim_table[b] for the table named t
delim(t, b) ==
    CASE t = "delim_line" -> delim_line(b)
      [] t = "delim_fasta_seq" -> delim_fasta_seq(b)
      [] t = "delim_fastq_seq" -> delim_fastq_seq(b)
      [] t = "delim_fastq_qual" -> delim_fastq_qual(b)
      [] t = "delim_gfa_field" -> delim_gfa_field(b)

\* type & 0x01 for the values a table holds (0, 1, 2, 0xff)
bit0(type) == type % 2

(***************************************************************************)
(* The byte stream (zf): a position in the file and the end-of-file flag,  *)
(* which a read past the last byte sets.                                   *)
(***************************************************************************)
zfgetc(f, st) ==
    IF st.pos < Len(f)
    THEN [c |-> f[st.pos + 1], st |-> [pos |-> st.pos + 1, eof |-> st.eof]]
    ELSE [c |-> EOF, st |-> [pos |-> st.pos, eof |-> TRUE]]

zfeof(st) == st.eof

zfpeek(f, n) == SubSeq(f, 1, Min(n, Len(f)))

(***************************************************************************)
(* fna_read_ascii: the text field tokenizer.                               *)
(***************************************************************************)
\* strip spaces at the head: the result of the zfgetc that ends the loop
RECURSIVE read_ascii_head(_, _)
read_ascii_head(f, st) ==
    LET g == zfgetc(f, st)
    IN  IF space_table(u8(g.c)) = 1 THEN read_ascii_head(f, g.st) ELSE g

\* read line until delim: the bytes pushed, the byte that ended the loop
RECURSIVE read_ascii_body(_, _, _, _)
read_ascii_body(f, st, t, acc) ==
    LET g == zfgetc(f, st)
    IN  IF delim(t, u8(g.c)) = 0
        THEN read_ascii_body(f, g.st, t, Append(acc, u8(g.c)))
        ELSE [v |-> acc, c |-> g.c, st |-> g.st]

\* strip spaces at the tail: while(len-- > 0 && space_table[c = kv_pop(*v)] == 1)
RECURSIVE read_ascii_tail(_, _, _)
read_ascii_tail(v, len, c) ==
    IF len > 0
    THEN LET c2 == v[Len(v)]
             v2 == SubSeq(v, 1, Len(v) - 1)
         IN  IF space_table(u8(c2)) = 1
             THEN read_ascii_tail(v2, len - 1, c2)
             ELSE [v |-> v2, len |-> len - 1, c |-> c2]
    ELSE [v |-> v, len |-> len - 1, c |-> c]

\* h: the end of the first loop, b: of the second, s: of the third
fna_read_ascii(f, st, t) ==
    LET finished(b, s) ==
            [v |-> s.v \o <<u8(s.c), NUL>>,
             len |-> s.len + 1,
             c |-> char(b.c),
             st |-> b.st]
        tail(b) == finished(b, read_ascii_tail(b.v, Len(b.v), b.c))
        head(h) ==
            IF h.c = EOF
            THEN [v |-> <<NUL>>, len |-> 0, c |-> char(EOF), st |-> h.st]
            ELSE tail(read_ascii_body(f, h.st, t, <<u8(h.c)>>))
    IN  head(read_ascii_head(f, st))

(***************************************************************************)
(* fna_read_skip: discard bytes up to a terminator.                        *)
(***************************************************************************)
RECURSIVE fna_read_skip(_, _, _)
fna_read_skip(f, st, t) ==
    LET g == zfgetc(f, st)
    IN  IF bit0(delim(t, u8(g.c))) = 0
        THEN fna_read_skip(f, g.st, t)
        ELSE [len |-> 0, c |-> char(g.c), st |-> g.st]

(***************************************************************************)
(* The base encoders: a table indexed by the low five bits of the byte.    *)
(***************************************************************************)
_b(x) == x % 32

fna_encode_2bit(c) ==
    LET i == _b(u8(c))
    IN  CASE i = _b(65) -> 0           \* A
          [] i = _b(67) -> 1           \* C
          [] i = _b(71) -> 2           \* G
          [] i = _b(84) -> 3           \* T
          [] i = _b(85) -> 3           \* U
          [] i = _b(78) -> 0           \* N
          [] OTHER -> 0

\* the 4-bit table with the entries of the four bases and U only
fna_encode_4bit_bases_only(c) ==
    LET i == _b(u8(c))
    IN  CASE i = _b(65) -> 1
          [] i = _b(67) -> 2
          [] i = _b(71) -> 4
          [] i = _b(84) -> 8
          [] i = _b(85) -> 8
          [] OTHER -> 0

fna_encode_4bit(c) ==
    LET i == _b(u8(c))
    IN  CASE i = _b(65) -> 1           \* A
          [] i = _b(67) -> 2           \* C
          [] i = _b(71) -> 4           \* G
          [] i = _b(84) -> 8           \* T
          [] i = _b(85) -> 8           \* U
          [] i = _b(82) -> 5           \* R = A | G
          [] i = _b(89) -> 10          \* Y = C | T
          [] i = _b(83) -> 6           \* S = G | C
          [] i = _b(87) -> 9           \* W = A | T
          [] i = _b(75) -> 12          \* K = G | T
          [] i = _b(77) -> 3           \* M = A | C
          [] i = _b(66) -> 14          \* B = C | G | T
          [] i = _b(68) -> 13          \* D = A | G | T
          [] i = _b(72) -> 11          \* H = A | C | T
          [] i = _b(86) -> 7           \* V = A | C | G
          [] i = _b(78) -> 0           \* N
          [] OTHER -> 0

\* a | b on bytes
RECURSIVE BitOr(_, _)
BitOr(a, b) ==
    IF a = 0 THEN b
    ELSE IF b = 0 THEN a
    ELSE (IF a % 2 = 1 \/ b % 2 = 1 THEN 1 ELSE 0)
         + 2 * BitOr(a \div 2, b \div 2)

\* a >> n on a byte
RECURSIVE shr(_, _)
shr(a, n) == IF n = 0 THEN a ELSE shr(a \div 2, n - 1)

(***************************************************************************)
(* The encoded field tokenizers (fna->read_seq).                           *)
(***************************************************************************)
\* fna->status = zfeof(fna->fp) ? FNA_EOF : FNA_SUCCESS, and the same
\* with the end of the stream not looked at
status_of_success(st) == FNA_SUCCESS

status_of(st) == IF zfeof(st) THEN FNA_EOF ELSE FNA_SUCCESS

\* the loop of fna_read_seq_ascii, fna_read_seq_2bit, fna_read_seq_4bit:
\* enc is the encoding of the pushed byte
encode(enc, c) ==
    CASE enc = FNA_ASCII -> u8(c)
      [] enc \in {FNA_2BIT, FNA_2BITPACKED} -> fna_encode_2bit(c)
      [] enc \in {FNA_4BIT, FNA_4BITPACKED} -> fna_encode_4bit(c)

RECURSIVE read_seq_loop(_, _, _, _, _)
read_seq_loop(f, st, t, enc, acc) ==
    LET g == zfgetc(f, st)
        type == delim(t, u8(g.c))
    IN  IF bit0(type) = 1 THEN [v |-> acc, c |-> g.c, st |-> g.st]
        ELSE IF type # 0 THEN read_seq_loop(f, g.st, t, enc, acc)
        ELSE read_seq_loop(f, g.st, t, enc, Append(acc, encode(enc, g.c)))

\* l: the end of the loop
fna_read_seq_ascii(f, st, t) ==
    LET finished(l) ==
            [v |-> Append(l.v, NUL), len |-> Len(l.v), c |-> char(l.c),
             st |-> l.st, status |-> status_of(l.st)]
    IN  finished(read_seq_loop(f, st, t, FNA_ASCII, <<>>))

fna_read_seq_2bit(f, st, t) ==
    LET finished(l) ==
            [v |-> l.v, len |-> Len(l.v), c |-> char(l.c),
             st |-> l.st, status |-> status_of(l.st)]
    IN  finished(read_seq_loop(f, st, t, FNA_2BIT, <<>>))

fna_read_seq_4bit(f, st, t) ==
    LET finished(l) ==
            [v |-> l.v, len |-> Len(l.v), c |-> char(l.c),
             st |-> l.st, status |-> status_of(l.st)]
    IN  finished(read_seq_loop(f, st, t, FNA_4BIT, <<>>))

\* the _fetch macro of the packed readers: the next data byte, or fin when
\* a terminator is met (goto ..._finish)
RECURSIVE _fetch(_, _, _)
_fetch(f, st, t) ==
    LET g == zfgetc(f, st)
        type == delim(t, u8(g.c))
    IN  IF type = 0 THEN [fin |-> FALSE, c |-> char(g.c), st |-> g.st]
        ELSE IF bit0(type) = 1 THEN [fin |-> TRUE, c |-> char(g.c), st |-> g.st]
        ELSE _fetch(f, g.st, t)

\* the unrolled loop of fna_read_seq_2bitpacked; k elements of the current
\* group are in arr, rem = 8 - 2k; c is the last byte _fetch returned
RECURSIVE read_seq_2bitpacked_loop(_, _, _, _, _, _, _, _)
read_seq_2bitpacked_loop(f, st, t, arr, k, len, c, v) ==
    LET g == _fetch(f, st, t)
        rem == 8 - 2 * k
        arr2 == BitOr(shr(arr, 2), (fna_encode_2bit(g.c) * 64) % 256)
    IN  IF g.fin
        THEN [v |-> Append(v, shr(arr, rem)), len |-> len + (8 - rem) \div 2,
              c |-> c, st |-> g.st]
        ELSE IF k = 3
        THEN read_seq_2bitpacked_loop(f, g.st, t, arr2, 0, len + 4, g.c,
                                      Append(v, arr2))
        ELSE read_seq_2bitpacked_loop(f, g.st, t, arr2, k + 1, len, g.c, v)

\* uc: the value of the uninitialized local c; first with len counting
\* the bytes pushed instead of the elements
fna_read_seq_2bitpacked_len_bytes(f, st, t, uc) ==
    LET finished(l) ==
            [v |-> l.v, len |-> Len(l.v), c |-> char(l.c),
             st |-> l.st, status |-> status_of(l.st)]
    IN  finished(read_seq_2bitpacked_loop(f, st, t, 0, 0, 0, uc, <<>>))

fna_read_seq_2bitpacked(f, st, t, uc) ==
    LET finished(l) ==
            [v |-> l.v, len |-> l.len, c |-> char(l.c),
             st |-> l.st, status |-> status_of(l.st)]
    IN  finished(read_seq_2bitpacked_loop(f, st, t, 0, 0, 0, uc, <<>>))

\* the unrolled loop of fna_read_seq_4bitpacked; rem = 8 - 4k
RECURSIVE read_seq_4bitpacked_loop(_, _, _, _, _, _, _, _)
read_seq_4bitpacked_loop(f, st, t, arr, k, len, c, v) ==
    LET g == _fetch(f, st, t)
        rem == 8 - 4 * k
        arr2 == BitOr(shr(arr, 2), (fna_encode_4bit(g.c) * 16) % 256)
    IN  IF g.fin
        THEN [v |-> Append(v, shr(arr, rem)), len |-> len + (8 - rem) \div 4,
              c |-> c, st |-> g.st]
        ELSE IF k = 1
        THEN read_seq_4bitpacked_loop(f, g.st, t, arr2, 0, len + 2, g.c,
                                      Append(v, arr2))
        ELSE read_seq_4bitpacked_loop(f, g.st, t, arr2, k + 1, len, g.c, v)

fna_read_seq_4bitpacked(f, st, t, uc) ==
    LET finished(l) ==
            [v |-> l.v, len |-> l.len, c |-> char(l.c),
             st |-> l.st, status |-> status_of(l.st)]
    IN  finished(read_seq_4bitpacked_loop(f, st, t, 0, 0, 0, uc, <<>>))

\* fna->read_seq: the reader fna_init chose for the encoding
read_seq(fn, f, st, t, uc) ==
    CASE fn = "fna_read_seq_ascii" -> fna_read_seq_ascii(f, st, t)
      [] fn = "fna_read_seq_2bit" -> fna_read_seq_2bit(f, st, t)
      [] fn = "fna_read_seq_2bitpacked" ->
            fna_read_seq_2bitpacked(f, st, t, uc)
      [] fn = "fna_read_seq_4bit" -> fna_read_seq_4bit(f, st, t)
      [] fn = "fna_read_seq_4bitpacked" ->
            fna_read_seq_4bitpacked(f, st, t, uc)

(***************************************************************************)
(* The record assembler.  A record is the vector v the driver built (the   *)
(* block starts at v[1]) and the fields of struct fna_seq_intl_s; the      *)
(* pointers are offsets from the start of the block.  The bytes of the     *)
(* struct inside v are written as HDR.                                     *)
(***************************************************************************)
SizeofSeqIntl == 64
HDR == 256

\* fna_seq_make_margin with a loop that runs once more
fna_seq_make_margin_once_more(v, len) == v \o Zeros(len + 1)

fna_seq_make_margin(v, len) == v \o Zeros(len)

\* kv_pusha(struct fna_seq_intl_s, v, ...)
kv_pusha(v) == v \o [i \in 1..SizeofSeqIntl |-> HDR]

_fna_pack_segment(ctx, v, name, name_len, sq, seq_len, qual, qual_len) ==
    [type |-> FNA_SEGMENT, seq_encode |-> ctx.seq_encode,
     options |-> ctx.options,
     head_margin |-> ctx.head_margin, tail_margin |-> ctx.tail_margin,
     seq_head_margin |-> ctx.seq_head_margin,
     seq_tail_margin |-> ctx.seq_tail_margin,
     v |-> v, r |-> ctx.head_margin,
     name |-> name, name_len |-> name_len,
     seq |-> sq, seq_len |-> seq_len,
     qual |-> qual, qual_len |-> qual_len]

_fna_pack_link(ctx, v, from, from_len, from_ori, to, to_len, to_ori, cigar, cigar_len) ==
    [type |-> FNA_LINK, seq_encode |-> ctx.seq_encode,
     options |-> ctx.options,
     head_margin |-> ctx.head_margin, tail_margin |-> ctx.tail_margin,
     seq_head_margin |-> ctx.seq_head_margin,
     seq_tail_margin |-> ctx.seq_tail_margin,
     v |-> v, r |-> ctx.head_margin,
     from |-> from, from_len |-> from_len, from_ori |-> from_ori,
     to |-> to, to_len |-> to_len, to_ori |-> to_ori,
     cigar |-> cigar, cigar_len |-> cigar_len]

\* what a driver returns: the record or NULL, the stream, the status of the
\* context, and whether the vector v was left allocated behind a NULL
Ret(r, st, status, leak) ==
    [r |-> r, st |-> st, status |-> status, leak |-> leak]

(***************************************************************************)
(* The FASTA driver.                                                       *)
(***************************************************************************)
fna_read_head_fasta(f, st) ==
    LET s == fna_read_skip(f, st, "delim_fasta_seq")
    IN  [ret |-> IF zfeof(s.st) THEN FNA_EOF ELSE FNA_SUCCESS, st |-> s.st]

\* the driver with the termination check on the sequence alone
fna_read_fasta_ends_on_empty_seq(f, ctx, uc) ==
    LET v0 == kv_pusha(fna_seq_make_margin(<<>>, ctx.head_margin))
        r == ctx.head_margin
        name == r + SizeofSeqIntl
        build(n, v1, s) ==
            LET v3 == fna_seq_make_margin(
                          Append(fna_seq_make_margin(v1 \o s.v,
                                                     ctx.seq_tail_margin), NUL),
                          ctx.tail_margin)
                sq == name + (n.len + 1) + ctx.seq_head_margin
                qual == sq + s.len + 1
            IN  IF s.len = 0
                THEN Ret(NULL, s.st, s.status, FALSE)
                ELSE Ret(_fna_pack_segment(ctx, v3, name, n.len, sq, s.len,
                                           qual, 0)
                             @@ [name_at |-> Len(v0), seq_at |-> Len(v1),
                                 qual_at |-> Len(v1 \o s.v)],
                         s.st, s.status, FALSE)
        parse_seq(n, v1) ==
            build(n, v1, read_seq(ctx.read_seq, f, n.st, "delim_fasta_seq", uc))
        parse_name(n) ==
            parse_seq(n, fna_seq_make_margin(v0 \o n.v, ctx.seq_head_margin))
    IN  parse_name(fna_read_ascii(f, ctx.st, "delim_line"))

\* n: what fna_read_ascii returned, v1: the vector before the sequence is
\* pushed, s: what fna->read_seq returned.  name_at and seq_at record where
\* the tokenizers started to push
fna_read_fasta(f, ctx, uc) ==
    LET v0 == kv_pusha(fna_seq_make_margin(<<>>, ctx.head_margin))
        r == ctx.head_margin
        name == r + SizeofSeqIntl
        build(n, v1, s) ==
            LET v3 == fna_seq_make_margin(
                          Append(fna_seq_make_margin(v1 \o s.v,
                                                     ctx.seq_tail_margin), NUL),
                          ctx.tail_margin)
                sq == name + (n.len + 1) + ctx.seq_head_margin
                qual == sq + s.len + 1
            IN  IF n.len = 0 /\ s.len = 0
                THEN Ret(NULL, s.st, s.status, FALSE)
                ELSE Ret(_fna_pack_segment(ctx, v3, name, n.len, sq, s.len,
                                           qual, 0)
                             @@ [name_at |-> Len(v0), seq_at |-> Len(v1),
                                 qual_at |-> Len(v1 \o s.v)],
                         s.st, s.status, FALSE)
        parse_seq(n, v1) ==
            build(n, v1, read_seq(ctx.read_seq, f, n.st, "delim_fasta_seq", uc))
        parse_name(n) ==
            parse_seq(n, fna_seq_make_margin(v0 \o n.v, ctx.seq_head_margin))
    IN  parse_name(fna_read_ascii(f, ctx.st, "delim_line"))

(***************************************************************************)
(* The FASTQ driver.                                                       *)
(***************************************************************************)
fna_read_head_fastq(f, st) ==
    LET s == fna_read_skip(f, st, "delim_fastq_seq")
    IN  [ret |-> IF zfeof(s.st) THEN FNA_EOF ELSE FNA_SUCCESS, st |-> s.st]

\* n, v1, s as in fna_read_fasta; v2: the vector before the quality is
\* pushed, k: the end of the skipped line, q: what the quality reader returned
fna_read_fastq(f, ctx, uc) ==
    LET v0 == kv_pusha(fna_seq_make_margin(<<>>, ctx.head_margin))
        r == ctx.head_margin
        name == r + SizeofSeqIntl
        skipq == (ctx.options % 2) = FNA_SKIP_QUAL
        build(n, v1, s, v2, q) ==
            LET status == IF skipq THEN s.status ELSE q.status
                v3 == fna_seq_make_margin(IF skipq THEN v2 ELSE v2 \o q.v,
                                          ctx.tail_margin)
                sq == name + (n.len + 1) + ctx.seq_head_margin
                qual == sq + s.len + 1
            IN  IF n.len = 0 /\ s.len = 0
                THEN Ret(NULL, q.st, status, FALSE)
                ELSE Ret(_fna_pack_segment(ctx, v3, name, n.len, sq, s.len,
                                           qual, q.len)
                             @@ [name_at |-> Len(v0), seq_at |-> Len(v1),
                                 qual_at |-> Len(v2)],
                         q.st, status, FALSE)
        parse_qual(n, v1, s, v2, k) ==
            build(n, v1, s, v2,
                  IF skipq
                  THEN fna_read_skip(f, k.st, "delim_fastq_seq")
                  ELSE read_seq(ctx.read_seq, f, k.st, "delim_fastq_seq", uc))
        skip_name(n, v1, s) ==
            parse_qual(n, v1, s,
                       fna_seq_make_margin(v1 \o s.v, ctx.seq_tail_margin),
                       fna_read_skip(f, s.st, "delim_line"))
        parse_seq(n, v1) ==
            skip_name(n, v1,
                      read_seq(ctx.read_seq, f, n.st, "delim_fastq_qual", uc))
        parse_name(n) ==
            parse_seq(n, fna_seq_make_margin(v0 \o n.v, ctx.seq_head_margin))
    IN  parse_name(fna_read_ascii(f, ctx.st, "delim_line"))

(***************************************************************************)
(* The GFA driver.                                                         *)
(***************************************************************************)
IsDigit(c) == c >= 48 /\ c <= 57
IsSpace(c) == c \in {SP, TAB, LF, VT, 12, CR}

\* the decimal value of the leading digits of s, continuing from acc
RECURSIVE strtoll_digits(_, _)
strtoll_digits(s, acc) ==
    IF s = <<>> \/ ~IsDigit(Head(s)) THEN acc
    ELSE strtoll_digits(Tail(s), 10 * acc + (Head(s) - 48))

\* strtoll(buf, NULL, 10): white space, an optional sign, digits
RECURSIVE strtoll(_)
strtoll(s) ==
    IF s = <<>> THEN 0
    ELSE IF IsSpace(Head(s)) THEN strtoll(Tail(s))
    ELSE IF Head(s) = MINUS THEN 0 - strtoll_digits(Tail(s), 0)
    ELSE IF Head(s) = PLUS THEN strtoll_digits(Tail(s), 0)
    ELSE strtoll_digits(s, 0)

\* *str at index p of the memory mem (1-based); the memory ends with zeros
deref(mem, p) == IF p <= Len(mem) THEN mem[p] ELSE NUL

\* the inner while loop of fna_parse_version_string: copies up to '.' or
\* NUL from index p; gives the copied bytes and the index where it stopped
RECURSIVE parse_version_copy(_, _, _)
parse_version_copy(mem, p, buf) ==
    IF deref(mem, p) = NUL \/ deref(mem, p) = DOT
    THEN [buf |-> buf, p |-> p]
    ELSE parse_version_copy(mem, p + 1, Append(buf, deref(mem, p)))

\* char buf[256]
SizeofBuf == 256

\* fna_parse_version_string on the string that starts at index p of mem.
\* v is the sum 0x10000 * v[0] + 0x100 * v[1] + v[2] before it is reduced
\* to 64 bits; last is the largest index of mem that was read; smash: a
\* byte was stored past the end of buf (buf[j] with j >= sizeof(buf))
fna_parse_version_string(mem, p) ==
    LET c0 == parse_version_copy(mem, p, <<>>)
        c1 == parse_version_copy(mem, c0.p + 1, <<>>)
        c2 == parse_version_copy(mem, c1.p + 1, <<>>)
    IN  [v |-> 65536 * strtoll(c0.buf) + 256 * strtoll(c1.buf)
                 + strtoll(c2.buf),
         last |-> c2.p,
         smash |-> \/ Len(c0.buf) >= SizeofBuf
                   \/ Len(c1.buf) >= SizeofBuf
                   \/ Len(c2.buf) >= SizeofBuf]

\* (uint64_t)x >= y for a small y >= 0: a negative x wraps to 2^64 + x
u64_ge(x, y) == IF x < 0 THEN TRUE ELSE x >= y

prefix == <<72, TAB, 86, 78, 58, 90, 58>>      \* "H\tVN:Z:"

\* um: the bytes that follow the terminating NUL of buf in memory; b: what
\* fna_read_ascii returned.  buf is never released: leak is TRUE on every
\* path
fna_read_head_gfa(f, st, um) ==
    LET version(b, ver) ==
            [ret |-> IF u64_ge(ver.v, 65536) THEN FNA_SUCCESS
                     ELSE FNA_ERROR_UNSUPPORTED_VERSION,
             st |-> b.st, status |-> <<>>, leak |-> TRUE,
             over |-> ver.last > Len(b.v), smash |-> ver.smash]
        check(b) ==
            IF Len(b.v) < Len(prefix) \/ SubSeq(b.v, 1, Len(prefix)) # prefix
            THEN [ret |-> FNA_ERROR_BROKEN_FORMAT, st |-> b.st,
                  status |-> <<FNA_ERROR_BROKEN_FORMAT>>, leak |-> TRUE,
                  over |-> FALSE, smash |-> FALSE]
            ELSE version(b, fna_parse_version_string(b.v \o um,
                                                     Len(prefix) + 1))
    IN  check(fna_read_ascii(f, st, "delim_line"))

\* n, v1, s as in fna_read_fasta; st2: the stream after the optional fields
fna_read_gfa_seq(f, ctx, st, uc) ==
    LET v0 == kv_pusha(fna_seq_make_margin(<<>>, ctx.head_margin))
        r == ctx.head_margin
        name == r + SizeofSeqIntl
        build(n, v1, s, st2) ==
            LET v3 == fna_seq_make_margin(
                          Append(fna_seq_make_margin(v1 \o s.v,
                                                     ctx.seq_tail_margin), NUL),
                          ctx.tail_margin)
                sq == name + (n.len + 1) + ctx.seq_head_margin
                qual == sq + s.len + 1
            IN  IF n.len = 0 /\ s.len = 0
                THEN Ret(NULL, st2, s.status, FALSE)
                ELSE Ret(_fna_pack_segment(ctx, v3, name, n.len, sq, s.len,
                                           qual, 0)
                             @@ [name_at |-> Len(v0), seq_at |-> Len(v1),
                                 qual_at |-> Len(v1 \o s.v)],
                         st2, s.status, FALSE)
        skip_optional(n, v1, s) ==
            build(n, v1, s,
                  IF s.c = TAB THEN fna_read_skip(f, s.st, "delim_line").st
                  ELSE s.st)
        parse_seq(n, v1) ==
            skip_optional(n, v1,
                read_seq(ctx.read_seq, f, n.st, "delim_gfa_field", uc))
        parse_name(n) ==
            parse_seq(n, fna_seq_make_margin(v0 \o n.v, ctx.seq_head_margin))
    IN  parse_name(fna_read_ascii(f, st, "delim_gfa_field"))

\* ret_from, ret_to, ret_cig: what fna_read_ascii returned; g1 .. g4: the
\* four zfgetc of the two directions.  A return of NULL leaves v allocated
fna_read_gfa_link(f, ctx, st) ==
    LET v0 == kv_pusha(fna_seq_make_margin(<<>>, ctx.head_margin))
        r == ctx.head_margin
        from == r + SizeofSeqIntl
        broken(s) == Ret(NULL, s, FNA_ERROR_BROKEN_FORMAT, TRUE)
        build(ret_from, from_ori, ret_to, to_ori, ret_cig, st2) ==
            LET v1 == fna_seq_make_margin(
                          v0 \o ret_from.v \o ret_to.v \o ret_cig.v,
                          ctx.tail_margin)
                to == from + (ret_from.len + 1)
                cig == to + (ret_to.len + 1)
            IN  Ret(_fna_pack_link(ctx, v1, from, ret_from.len, from_ori,
                                   to, ret_to.len, to_ori, cig, ret_cig.len),
                    st2, ctx.status, FALSE)
        skip_optional(ret_from, from_ori, ret_to, to_ori, ret_cig) ==
            build(ret_from, from_ori, ret_to, to_ori, ret_cig,
                  IF ret_cig.c = TAB
                  THEN fna_read_skip(f, ret_cig.st, "delim_line").st
                  ELSE ret_cig.st)
        parse_cigar(ret_from, from_ori, ret_to, to_ori, g4) ==
            IF g4.c # TAB THEN broken(g4.st)
            ELSE skip_optional(ret_from, from_ori, ret_to, to_ori,
                               fna_read_ascii(f, g4.st, "delim_gfa_field"))
        to_direction(ret_from, from_ori, ret_to, g3) ==
            parse_cigar(ret_from, from_ori, ret_to,
                        IF g3.c = PLUS THEN 1 ELSE -1, zfgetc(f, g3.st))
        parse_to(ret_from, from_ori, ret_to) ==
            IF ret_to.c # TAB THEN broken(ret_to.st)
            ELSE to_direction(ret_from, from_ori, ret_to,
                              zfgetc(f, ret_to.st))
        from_tab(ret_from, from_ori, g2) ==
            IF g2.c # TAB THEN broken(g2.st)
            ELSE parse_to(ret_from, from_ori,
                          fna_read_ascii(f, g2.st, "delim_gfa_field"))
        from_direction(ret_from, g1) ==
            from_tab(ret_from, IF g1.c = PLUS THEN 1 ELSE -1,
                     zfgetc(f, g1.st))
        parse_from(ret_from) ==
            IF ret_from.c # TAB THEN broken(ret_from.st)
            ELSE from_direction(ret_from, zfgetc(f, ret_from.st))
    IN  parse_from(fna_read_ascii(f, st, "delim_gfa_field"))

\* the while loop of fna_read_gfa, from the stream st
RECURSIVE fna_read_gfa_loop(_, _, _, _)
fna_read_gfa_loop(f, ctx, st, uc) ==
    LET g == zfgetc(f, st)
        g2 == zfgetc(f, g.st)
    IN  IF g.c = EOF THEN Ret(NULL, g.st, FNA_EOF, FALSE)
        ELSE IF g2.c # TAB
        THEN Ret(NULL, g2.st, FNA_ERROR_BROKEN_FORMAT, FALSE)
        ELSE IF g.c = 83 THEN fna_read_gfa_seq(f, ctx, g2.st, uc)       \* S
        ELSE IF g.c = 76 THEN fna_read_gfa_link(f, ctx, g2.st)          \* L
        ELSE IF g.c \in {67, 80}                                        \* C, P
        THEN fna_read_gfa_loop(
                 f, ctx, fna_read_skip(f, g2.st, "delim_line").st, uc)
        ELSE Ret(NULL, g2.st, FNA_ERROR_BROKEN_FORMAT, FALSE)

\* the driver taking a stream that has reported its end for a broken file
fna_read_gfa_eof_is_broken(f, ctx, uc) ==
    IF zfeof(ctx.st)
    THEN Ret(NULL, ctx.st, FNA_ERROR_BROKEN_FORMAT, FALSE)
    ELSE fna_read_gfa_loop(f, ctx, ctx.st, uc)

fna_read_gfa(f, ctx, uc) == fna_read_gfa_loop(f, ctx, ctx.st, uc)

\* fna->read(fna): the driver fna_init chose for the grammar
fna_read_fast5(f, ctx, uc) == Ret(NULL, ctx.st, ctx.status, FALSE)

read(f, ctx, uc) ==
    CASE ctx.read = "fna_read_fasta" -> fna_read_fasta(f, ctx, uc)
      [] ctx.read = "fna_read_fastq" -> fna_read_fastq(f, ctx, uc)
      [] ctx.read = "fna_read_fast5" -> fna_read_fast5(f, ctx, uc)
      [] ctx.read = "fna_read_gfa" -> fna_read_gfa(f, ctx, uc)

(***************************************************************************)
(* fna_init.                                                               *)
(***************************************************************************)
_roundup(x, base) == ((x + base - 1) \div base) * base

\* the value a uint16_t field keeps of x
u16(x) == x % 65536

\* the extension table of fna_init, in its order
ext == <<
    [ext |-> <<".", "f", "a", "s", "t", "a">>, file_format |-> FNA_FASTA],
    [ext |-> <<".", "f", "a", "s">>, file_format |-> FNA_FASTA],
    [ext |-> <<".", "s", "e", "q">>, file_format |-> FNA_FASTA],
    [ext |-> <<".", "f", "n", "a">>, file_format |-> FNA_FASTA],
    [ext |-> <<".", "f", "f", "n">>, file_format |-> FNA_FASTA],
    [ext |-> <<".", "f", "a">>, file_format |-> FNA_FASTA],
    [ext |-> <<".", "f", "a", "s", "t", "q">>, file_format |-> FNA_FASTQ],
    [ext |-> <<".", "f", "q">>, file_format |-> FNA_FASTQ],
    [ext |-> <<".", "f", "a", "s", "t", "5">>, file_format |-> FNA_FAST5],
    [ext |-> <<".", "f", "5">>, file_format |-> FNA_FAST5],
    [ext |-> <<".", "g", "f", "a">>, file_format |-> FNA_GFA] >>

\* strncmp(path_tail - strlen(e), e, strlen(e)) == 0; the paths of the
\* model are at least as long as the longest extension
match_ext(p, e) ==
    /\ Len(p) >= Len(e)
    /\ SubSeq(p, Len(p) - Len(e) + 1, Len(p)) = e

\* the loop over ext: the first entry that matches, from entry i on; first
\* with a table that has no entry
format_of_path_no_table(p, i) == FNA_UNKNOWN

RECURSIVE format_of_path(_, _)
format_of_path(p, i) ==
    IF i > Len(ext) THEN FNA_UNKNOWN
    ELSE IF match_ext(p, ext[i].ext) THEN ext[i].file_format
    ELSE format_of_path(p, i + 1)

\* the loop over the peeked bytes buf (buf[len] is 0), from index i on;
\* first with a loop that is left at the first match
RECURSIVE format_of_content_first_match(_, _, _)
format_of_content_first_match(buf, i, fmt) ==
    IF i > Len(buf) \/ fmt # FNA_UNKNOWN THEN fmt
    ELSE format_of_content_first_match(buf, i + 1,
             CASE buf[i] = GT -> FNA_FASTA
               [] buf[i] = AT -> FNA_FASTQ
               [] buf[i] = 72 /\ i < Len(buf) /\ buf[i + 1] = TAB -> FNA_GFA
               [] OTHER -> fmt)

RECURSIVE format_of_content(_, _, _)
format_of_content(buf, i, fmt) ==
    IF i > Len(buf) THEN fmt
    ELSE format_of_content(buf, i + 1,
             CASE buf[i] = GT -> FNA_FASTA
               [] buf[i] = AT -> FNA_FASTQ
               [] buf[i] = 72 /\ i < Len(buf) /\ buf[i + 1] = TAB -> FNA_GFA
               [] OTHER -> fmt)

\* read_head[fna->file_format](fna)
read_head(fmt, f, st, um) ==
    CASE fmt = FNA_FASTA ->
            fna_read_head_fasta(f, st) @@
                [status |-> <<>>, leak |-> FALSE, over |-> FALSE,
                 smash |-> FALSE]
      [] fmt = FNA_FASTQ ->
            fna_read_head_fastq(f, st) @@
                [status |-> <<>>, leak |-> FALSE, over |-> FALSE,
                 smash |-> FALSE]
      [] fmt = FNA_FAST5 ->
            [ret |-> FNA_EOF, st |-> st,
             status |-> <<>>, leak |-> FALSE, over |-> FALSE,
             smash |-> FALSE]
      [] fmt = FNA_GFA -> fna_read_head_gfa(f, st, um)

\* the tables read[] and read_seq[] of fna_init
read_table(fmt) ==
    CASE fmt = FNA_FASTA -> "fna_read_fasta"
      [] fmt = FNA_FASTQ -> "fna_read_fastq"
      [] fmt = FNA_FAST5 -> "fna_read_fast5"
      [] fmt = FNA_GFA -> "fna_read_gfa"

read_seq_table(enc) ==
    CASE enc = FNA_ASCII -> "fna_read_seq_ascii"
      [] enc = FNA_2BIT -> "fna_read_seq_2bit"
      [] enc = FNA_2BITPACKED -> "fna_read_seq_2bitpacked"
      [] enc = FNA_4BIT -> "fna_read_seq_4bit"
      [] enc = FNA_4BITPACKED -> "fna_read_seq_4bitpacked"

Blk(kind, id) == [kind |-> kind, id |-> id]

\* us: the content of the status field of the block malloc returned;
\* um: the memory behind the GFA header line.
\* Gives the context, the blocks left allocated and the undefined
\* behaviour met
fna_init(p, ex, pa, f, us, um) ==
    LET c0 == [path |-> null, fp |-> null, st |-> [pos |-> 0, eof |-> FALSE],
               seq_encode |-> pa.seq_encode,
               file_format |-> pa.file_format,
               options |-> pa.options,
               head_margin |-> u16(_roundup(pa.head_margin, 16)),
               tail_margin |-> u16(_roundup(pa.tail_margin, 16)),
               seq_head_margin |-> u16(_roundup(pa.seq_head_margin, 16)),
               seq_tail_margin |-> u16(_roundup(pa.seq_tail_margin, 16)),
               status |-> us, read |-> "unset", read_seq |-> "unset"]
        fmt1 == IF pa.file_format = 0 THEN format_of_path(p, 1)
                ELSE pa.file_format
        fmt2 == IF fmt1 = 0 THEN format_of_content(zfpeek(f, 32), 1, fmt1)
                ELSE fmt1
        \* h: what read_head[fna->file_format](fna) did
        parse_header(c, h) ==
            LET c2 == [c EXCEPT !.read = read_table(c.file_format),
                                !.read_seq = read_seq_table(c.seq_encode),
                                !.status = IF h.status = <<>> THEN us
                                           ELSE h.status[1]]
                hb == IF h.leak THEN {Blk("buf", 0)} ELSE {}
                hu == (IF h.over THEN {"version_overread"} ELSE {})
                      \cup (IF h.smash THEN {"version_buf_overflow"}
                            ELSE {})
            IN  IF h.ret # FNA_SUCCESS
                THEN [fna |-> c2, live |-> {Blk("fna", 0)} \cup hb,
                      ub |-> hu]
                ELSE [fna |-> [c2 EXCEPT !.fp = "open", !.st = h.st,
                                         !.path = "set"],
                      live |-> {Blk("fna", 0), Blk("fp", 0), Blk("path", 0)}
                               \cup hb,
                      ub |-> hu]
        resolved(c) ==
            IF c.file_format = 0 \/ c.file_format = FNA_FAST5
            THEN [fna |-> [c EXCEPT !.status = FNA_ERROR_UNKNOWN_FORMAT],
                  live |-> {Blk("fna", 0)}, ub |-> {}]
            ELSE parse_header(c, read_head(c.file_format, f, c.st, um))
    IN  IF ~ex
        THEN [fna |-> c0, live |-> {Blk("fna", 0)}, ub |-> {}]
        ELSE resolved([c0 EXCEPT !.file_format = fmt2])

(***************************************************************************)
(* fna_seq_free: the addresses it passes to free(), as offsets from the    *)
(* start of the block of the record, in call order.                        *)
(***************************************************************************)
fna_seq_free(s) ==
    LET base == s.r + SizeofSeqIntl
        only(cond, off) == IF cond THEN <<off>> ELSE <<>>
    IN  IF s.type = FNA_SEGMENT
        THEN LET name_base == base
                 seq_base == name_base + s.seq_head_margin + s.name_len + 1
                 qual_base == seq_base + s.seq_tail_margin + s.seq_len + 1
             IN  only(s.name # name_base, s.name)
                 \o only(s.seq # seq_base, s.seq)
                 \o only(s.qual # qual_base, s.qual)
                 \o <<s.r - s.head_margin>>
        ELSE IF s.type = FNA_LINK
        THEN LET from_base == base
                 to_base == from_base + s.from_len + 1
                 cigar_base == to_base + s.to_len + 1
             IN  only(s.from # from_base, s.from)
                 \o only(s.to # to_base, s.to)
                 \o only(s.cigar # cigar_base, s.cigar)
                 \o <<s.r - s.head_margin>>
        ELSE <<s.r - s.head_margin>>

(***************************************************************************)
(* What the caller sees of a record: the bytes behind its pointers.  A     *)
(* byte that no push wrote is UNWRITTEN.                                   *)
(***************************************************************************)
UNWRITTEN == 257

ByteAt(s, off) ==
    IF off >= 0 /\ off < Len(s.v) THEN s.v[off + 1] ELSE UNWRITTEN

Bytes(s, off, n) == [i \in 1..n |-> ByteAt(s, off + i - 1)]

View(s) ==
    IF s.type = FNA_SEGMENT
    THEN [type |-> FNA_SEGMENT,
          name |-> Bytes(s, s.name, s.name_len),
          seq |-> Bytes(s, s.seq, s.seq_len), seq_len |-> s.seq_len,
          qual |-> Bytes(s, s.qual, s.qual_len), qual_len |-> s.qual_len]
    ELSE [type |-> FNA_LINK,
          from |-> Bytes(s, s.from, s.from_len), from_ori |-> s.from_ori,
          to |-> Bytes(s, s.to, s.to_len), to_ori |-> s.to_ori,
          cigar |-> Bytes(s, s.cigar, s.cigar_len),
          cigar_len |-> s.cigar_len]

\* the views of the records that successive calls of fna_read return, up to
\* the first call that returns NULL
RECURSIVE ReadAll(_, _, _)
ReadAll(f, ctx, uc) ==
    LET returned(d) ==
            IF d.r = NULL THEN <<>>
            ELSE <<View(d.r)>>
                 \o ReadAll(f, [ctx EXCEPT !.st = d.st, !.status = d.status],
                            uc)
    IN  returned(read(f, ctx, uc))

(***************************************************************************)
(* The operations of the library, called by one caller.                    *)
(***************************************************************************)
\* what an uninitialized status field, an uninitialized local c and the
\* memory behind a string can hold
UninitStatus == {FNA_SUCCESS, FNA_ERROR_FILE_OPEN,
                 FNA_ERROR_UNSUPPORTED_VERSION, 77}
UninitC == {NUL, TAB}
UninitMem == {<<NUL>>, <<49, NUL>>, <<MINUS, 49, NUL>>}

\* fna_t *fna = fna_init(path, params)
FnaInit ==
    /\ pc = "start"
    /\ \E us \in UninitStatus, um \in UninitMem :
          \E i \in {fna_init(path, exists, params, file, us, um)} :
              /\ fna' = i.fna
              /\ live' = i.live
              /\ ub' = ub \cup i.ub
    /\ pc' = "open"
    /\ UNCHANGED <<frame, path, exists, params, file, entries, seq, ret, out,
                   nblk, freed>>

\* seq = fna_read(fna).  On a context whose stream fna_init released the
\* driver is unset or reads the null stream: the call crashes or returns
fna_read_undefined(ctx) ==
    IF ctx.read = "unset" THEN "call_unset_driver" ELSE "read_null_stream"

FnaRead ==
    /\ pc = "open"
    /\ seq = NULL
    /\ IF fna.fp = null
       THEN /\ ub' = ub \cup {fna_read_undefined(fna)}
            /\ \E crash \in BOOLEAN :
                  /\ pc' = IF crash THEN "crashed" ELSE pc
                  /\ ret' = IF crash THEN "none" ELSE "absent"
            /\ UNCHANGED <<fna, seq, out, live, nblk>>
       ELSE \E uc \in UninitC : \E d \in {read(file, fna, uc)} :
               LET b == Blk("v", nblk + 1)
               IN  /\ fna' = [fna EXCEPT !.st = d.st, !.status = d.status]
                   /\ seq' = IF d.r = NULL THEN NULL
                             ELSE d.r @@ [blk |-> b]
                   /\ ret' = IF d.r = NULL THEN "absent" ELSE "record"
                   /\ out' = IF d.r = NULL THEN out
                             ELSE Append(out, View(d.r))
                   /\ live' = IF d.r # NULL \/ d.leak THEN live \cup {b}
                              ELSE live
                   /\ nblk' = IF d.r # NULL \/ d.leak THEN nblk + 1
                              ELSE nblk
                   /\ UNCHANGED <<pc, ub>>
    /\ UNCHANGED <<frame, path, exists, params, file, entries, freed>>

\* fna_seq_free(seq): free() of the start of a live block releases it, any
\* other address is undefined behaviour: the call aborts or goes on
invalid_free(s, lv) ==
    \E i \in 1..Len(fna_seq_free(s)) :
        \/ fna_seq_free(s)[i] # 0
        \/ s.blk \notin lv
        \/ \E j \in 1..(i - 1) : fna_seq_free(s)[j] = 0

FnaSeqFree ==
    /\ pc \in {"open", "closed"}
    /\ seq # NULL
    /\ freed' = [i \in 1..Len(fna_seq_free(seq)) |->
                    [blk |-> seq.blk, off |-> fna_seq_free(seq)[i]]]
    /\ ub' = IF invalid_free(seq, live) THEN ub \cup {"invalid_free"}
             ELSE ub
    /\ \E crash \in (IF invalid_free(seq, live) THEN BOOLEAN ELSE {FALSE}) :
          /\ pc' = IF crash THEN "crashed" ELSE pc
          /\ live' = IF crash THEN live ELSE live \ {seq.blk}
    /\ seq' = NULL
    /\ UNCHANGED <<frame, path, exists, params, file, entries, fna, ret, out,
                   nblk>>

\* fna_close(fna)
fna_close(ctx, lv) ==
    lv \ ({Blk("fna", 0)}
          \cup (IF ctx.fp # null THEN {Blk("fp", 0)} ELSE {})
          \cup (IF ctx.path # null THEN {Blk("path", 0)} ELSE {}))

FnaClose ==
    /\ pc = "open"
    /\ live' = fna_close(fna, live)
    /\ fna' = NULL
    /\ pc' = "closed"
    /\ ret' = "none"
    /\ UNCHANGED <<frame, path, exists, params, file, entries, seq, out, nblk,
                   freed, ub>>

Next == FnaInit \/ FnaRead \/ FnaSeqFree \/ FnaClose

(***************************************************************************)
(* fna_parse_version_string, one statement at a time.  The frame holds the *)
(* memory the string lies in, the pointer str, the counters i and j, what  *)
(* was stored in buf and the numbers v.                                    *)
(***************************************************************************)
\* the program, which is not run while a call is run one step at a time
Caller == <<path, exists, params, file, entries, fna, pc, seq, ret, out,
            live, nblk, freed>>

\* what v[i] can be after strtoll has read a buf that holds no zero byte
Garbage == {0, 1}

\* *str: the byte at the pointer; the bytes after the terminating NUL are
\* not part of the string
ParseDeref(fr) == fr.mem[fr.str]

\* the call fna_parse_version_string(str) on the version of the header
\* line, which is followed in memory by the bytes um
ParseCall ==
    /\ frame = NULL
    /\ pc = "start"
    /\ entries # <<>> /\ entries[1].k = "H"
    /\ \E um \in UninitMem :
          frame' = [fn |-> "fna_parse_version_string",
                    mem |-> entries[1].ver \o <<NUL>> \o um \o <<NUL, NUL>>,
                    end |-> Len(entries[1].ver) + 1,
                    str |-> 1, i |-> 0, j |-> 0, buf |-> <<>>,
                    v |-> <<0, 0, 0>>, at |-> "for", result |-> 0]
    /\ UNCHANGED <<Caller, ub>>

\* the reads of *str behind the terminating NUL
ParseOverread(fr) ==
    IF fr.str > fr.end THEN {"version_overread"} ELSE {}

\* buf[j++] = *str++; a store at j >= sizeof(buf) is undefined behaviour:
\* the call is aborted or goes on with the byte stored outside of buf
ParseCopy ==
    /\ frame # NULL /\ frame.fn = "fna_parse_version_string"
    /\ frame.at = "for" /\ frame.i < 3
    /\ ParseDeref(frame) \notin {NUL, DOT}
    /\ IF frame.j < SizeofBuf
       THEN /\ frame' = [frame EXCEPT
                            !.buf = Append(@, ParseDeref(frame)),
                            !.j = @ + 1, !.str = @ + 1]
            /\ ub' = ub \cup ParseOverread(frame)
       ELSE /\ ub' = ub \cup ParseOverread(frame)
                       \cup {"version_buf_overflow"}
            /\ \/ frame' = [frame EXCEPT !.at = "aborted"]
               \/ frame' = [frame EXCEPT !.j = @ + 1, !.str = @ + 1]
    /\ UNCHANGED Caller

\* buf[j] = '\0'; v[i] = strtoll(buf, NULL, 10); str++; and the i++ of the
\* for loop.  With j >= sizeof(buf) the zero byte is stored outside of buf
ParseNumber ==
    /\ frame # NULL /\ frame.fn = "fna_parse_version_string"
    /\ frame.at = "for" /\ frame.i < 3
    /\ ParseDeref(frame) \in {NUL, DOT}
    /\ IF frame.j < SizeofBuf
       THEN /\ frame' = [frame EXCEPT
                            !.v[frame.i + 1] = strtoll(frame.buf),
                            !.buf = <<>>, !.j = 0,
                            !.str = @ + 1, !.i = @ + 1]
            /\ ub' = ub \cup ParseOverread(frame)
       ELSE /\ ub' = ub \cup ParseOverread(frame)
                       \cup {"version_buf_overflow"}
            /\ \/ frame' = [frame EXCEPT !.at = "aborted"]
               \/ \E g \in Garbage :
                     frame' = [frame EXCEPT
                                  !.v[frame.i + 1] = g,
                                  !.buf = <<>>, !.j = 0,
                                  !.str = @ + 1, !.i = @ + 1]
    /\ UNCHANGED Caller

\* return(0x10000 * v[0] + 0x100 * v[1] + v[2])
ParseReturn ==
    /\ frame # NULL /\ frame.fn = "fna_parse_version_string"
    /\ frame.at = "for" /\ frame.i = 3
    /\ frame' = [frame EXCEPT
                    !.at = "returned",
                    !.result = 65536 * frame.v[1] + 256 * frame.v[2]
                               + frame.v[3]]
    /\ UNCHANGED <<Caller, ub>>

NextParse == ParseCall \/ ParseCopy \/ ParseNumber \/ ParseReturn

(***************************************************************************)
(* The loops that read the stream, one zfgetc at a time.  The frame holds  *)
(* the loop that runs, the table it was called with and the stream; at is  *)
(* "while" in the loop, "fna_read_skip" in the call the GFA driver makes   *)
(* for a C or P line, and "done" after the loop.                           *)
(***************************************************************************)
\* the tables the tokenizers are called with
DelimTables == {"delim_line", "delim_fasta_seq", "delim_fastq_seq",
                "delim_fastq_qual", "delim_gfa_field"}

\* the loops: the two of fna_read_ascii, the one of fna_read_skip, the one
\* of fna_read_seq_ascii, _2bit and _4bit, the _fetch of the packed
\* readers within its while(1), and the one of fna_read_gfa
Loops == {"strip_spaces_at_the_head", "read_line_until_delim",
          "fna_read_skip", "fna_read_seq", "_fetch", "fna_read_gfa"}

\* a loop is entered with the stream at any place of the file; at the end
\* of the file the stream may have reported EOF before
LoopCall ==
    /\ frame = NULL
    /\ pc = "start"
    /\ \E fn \in Loops, t \in DelimTables, pos \in 0..Len(file),
          eof \in BOOLEAN :
          /\ eof => pos = Len(file)
          /\ fn \in {"strip_spaces_at_the_head", "fna_read_gfa"}
                 => t = "delim_line"
          /\ frame' = [fn |-> fn, t |-> t,
                       st |-> [pos |-> pos, eof |-> eof], at |-> "while"]
    /\ UNCHANGED <<Caller, ub>>

InLoop(fn, at) == frame # NULL /\ frame.fn = fn /\ frame.at = at

\* while(space_table[(uint8_t)(c = zfgetc(fna->fp))] == 1)
StripSpacesStep ==
    /\ InLoop("strip_spaces_at_the_head", "while")
    /\ \E g \in {zfgetc(file, frame.st)} :
          frame' = [frame EXCEPT
                       !.st = g.st,
                       !.at = IF space_table(u8(g.c)) = 1 THEN "while"
                              ELSE "done"]
    /\ UNCHANGED <<Caller, ub>>

\* while(delim_table[(uint8_t)(c = zfgetc(fna->fp))] == 0)
ReadLineStep ==
    /\ InLoop("read_line_until_delim", "while")
    /\ \E g \in {zfgetc(file, frame.st)} :
          frame' = [frame EXCEPT
                       !.st = g.st,
                       !.at = IF delim(frame.t, u8(g.c)) = 0 THEN "while"
                              ELSE "done"]
    /\ UNCHANGED <<Caller, ub>>

\* while((delim_table[(uint8_t)(c = zfgetc(fna->fp))] & 0x01) == 0), called
\* by a driver or by fna_read_gfa, to which it returns
ReadSkipStep ==
    /\ \/ InLoop("fna_read_skip", "while")
       \/ InLoop("fna_read_gfa", "fna_read_skip")
    /\ \E g \in {zfgetc(file, frame.st)} :
          frame' = [frame EXCEPT
                       !.st = g.st,
                       !.at = IF bit0(delim(frame.t, u8(g.c))) = 0 THEN @
                              ELSE IF frame.fn = "fna_read_gfa" THEN "while"
                              ELSE "done"]
    /\ UNCHANGED <<Caller, ub>>

\* while(1) { c = zfgetc(fna->fp); if(type & 0x01) { break; } ... }
ReadSeqStep ==
    /\ InLoop("fna_read_seq", "while")
    /\ \E g \in {zfgetc(file, frame.st)} :
          frame' = [frame EXCEPT
                       !.st = g.st,
                       !.at = IF bit0(delim(frame.t, u8(g.c))) = 1 THEN "done"
                              ELSE "while"]
    /\ UNCHANGED <<Caller, ub>>

\* while((_type = delim_table[(uint8_t)(_c = zfgetc(_fna->fp))]) != 0)
\* { if(_type & 0x01) { goto finish; } } within while(1): a byte of type
\* 0 is returned and the next _fetch follows
FetchStep ==
    /\ InLoop("_fetch", "while")
    /\ \E g \in {zfgetc(file, frame.st)} :
          frame' = [frame EXCEPT
                       !.st = g.st,
                       !.at = IF delim(frame.t, u8(g.c)) # 0
                                 /\ bit0(delim(frame.t, u8(g.c))) = 1
                              THEN "done" ELSE "while"]
    /\ UNCHANGED <<Caller, ub>>

\* one round of while((c = zfgetc(fna->fp)) != EOF) in fna_read_gfa, up to
\* the return or the call of fna_read_skip: g the type character, g2 the
\* byte after it
ReadGfaStep ==
    /\ InLoop("fna_read_gfa", "while")
    /\ \E g \in {zfgetc(file, frame.st)} :
          \E g2 \in {zfgetc(file, g.st)} :
             frame' = [frame EXCEPT
                          !.st = IF g.c = EOF THEN g.st ELSE g2.st,
                          !.at = IF g.c # EOF /\ g2.c = TAB
                                    /\ g.c \in {67, 80}
                                 THEN "fna_read_skip" ELSE "done"]
    /\ UNCHANGED <<Caller, ub>>

LoopStep ==
    \/ StripSpacesStep
    \/ ReadLineStep
    \/ ReadSkipStep
    \/ ReadSeqStep
    \/ FetchStep
    \/ ReadGfaStep

NextLoops == LoopCall \/ LoopStep

(***************************************************************************)
(* The inputs.  A file is written from entries: FASTA entries, FASTQ       *)
(* entries or GFA lines, each kept with its parts, so that what a correct  *)
(* read returns is known from the parts.                                   *)
(***************************************************************************)
MaxEntries == 2

\* the sequences over S of length at most n
SeqsUpTo(S, n) == UNION {[1..k -> S] : k \in 0..n}

\* s.t. each line of ls follows a line break
Lines(ls) == Flatten([i \in 1..Len(ls) |-> <<LF>> \o ls[i]])

\* s with a TAB before it, when it is not empty
Column(s) == IF s = <<>> THEN <<>> ELSE <<TAB>> \o s

TextOf(e) ==
    CASE e.k = "fasta" -> <<GT>> \o e.hdr \o Lines(e.lines)
      [] e.k = "fastq" -> <<AT>> \o e.hdr \o Lines(e.lines)
                          \o <<LF, PLUS>> \o e.plus \o Lines(e.quals)
      [] e.k = "H" -> prefix \o e.ver
      [] e.k = "S" -> <<83, TAB>> \o e.name \o <<TAB>> \o e.seq
                      \o Column(e.opt)
      [] e.k = "L" -> <<76, TAB>> \o e.from \o <<TAB, e.fo, TAB>> \o e.to
                      \o <<TAB, e.too, TAB>> \o e.cigar \o Column(e.opt)
      [] e.k = "raw" -> e.raw

\* the entries, one after the other, a line break between two; nl: the
\* file ends with a line break
FileOf(es, nl) ==
    IF es = <<>> THEN <<>>
    ELSE TextOf(es[1])
         \o Flatten([i \in 1..(Len(es) - 1) |-> <<LF>> \o TextOf(es[i + 1])])
         \o (IF nl THEN <<LF>> ELSE <<>>)

IsBlank(c) == c \in {SP, TAB}

RECURSIVE TrimLeft(_)
TrimLeft(s) ==
    IF s # <<>> /\ IsBlank(Head(s)) THEN TrimLeft(Tail(s)) ELSE s

RECURSIVE TrimRight(_)
TrimRight(s) ==
    IF s # <<>> /\ IsBlank(s[Len(s)])
    THEN TrimRight(SubSeq(s, 1, Len(s) - 1)) ELSE s

Trim(s) == TrimRight(TrimLeft(s))

Segment(name, sq, qual) ==
    [type |-> FNA_SEGMENT, name |-> name, seq |-> sq, seq_len |-> Len(sq),
     qual |-> qual, qual_len |-> Len(qual)]

Ori(c) == IF c = PLUS THEN 1 ELSE -1

\* the records a read of the entry is to return, for the ASCII encoding;
\* skipq: the quality is not wanted
Wanted(e, skipq) ==
    CASE e.k = "fasta" -> <<Segment(Trim(e.hdr), Flatten(e.lines), <<>>)>>
      [] e.k = "fastq" ->
            <<Segment(Trim(e.hdr), Flatten(e.lines),
                      IF skipq THEN <<>> ELSE Flatten(e.quals))>>
      [] e.k = "S" -> <<Segment(e.name, e.seq, <<>>)>>
      [] e.k = "L" -> <<[type |-> FNA_LINK,
                         from |-> e.from, from_ori |-> Ori(e.fo),
                         to |-> e.to, to_ori |-> Ori(e.too),
                         cigar |-> e.cigar, cigar_len |-> Len(e.cigar)]>>
      [] OTHER -> <<>>

Expected(es, skipq) == Flatten([i \in 1..Len(es) |-> Wanted(es[i], skipq)])

IsPrefix(s, t) == Len(s) <= Len(t) /\ s = SubSeq(t, 1, Len(s))

\* >a ACGT | > b<SP> TT A | ><TAB>c <blank line> G | >d (no sequence)
\* | > (no name) C
FastaEntries == {
    [k |-> "fasta", hdr |-> <<97>>, lines |-> << <<65, 67, 71, 84>> >>],
    [k |-> "fasta", hdr |-> <<SP, 98, SP>>, lines |-> << <<84, 84>>, <<65>> >>],
    [k |-> "fasta", hdr |-> <<TAB, 99>>, lines |-> << <<>>, <<71>> >>],
    [k |-> "fasta", hdr |-> <<100>>, lines |-> << >>],
    [k |-> "fasta", hdr |-> <<>>, lines |-> << <<67>> >>] }

\* @a ACGT +a IIII | @ b TT A + b II I | @c <blank> G + <blank> I
\* | @ (no name) C + I | @e CC + @I (a quality that starts with @)
FastqEntries == {
    [k |-> "fastq", hdr |-> <<97>>, lines |-> << <<65, 67, 71, 84>> >>,
     plus |-> <<97>>, quals |-> << <<73, 73, 73, 73>> >>],
    [k |-> "fastq", hdr |-> <<SP, 98>>, lines |-> << <<84, 84>>, <<65>> >>,
     plus |-> <<SP, 98>>, quals |-> << <<73, 73>>, <<73>> >>],
    [k |-> "fastq", hdr |-> <<99>>, lines |-> << <<>>, <<71>> >>,
     plus |-> <<>>, quals |-> << <<>>, <<73>> >>],
    [k |-> "fastq", hdr |-> <<>>, lines |-> << <<67>> >>,
     plus |-> <<>>, quals |-> << <<73>> >>],
    [k |-> "fastq", hdr |-> <<101>>, lines |-> << <<67, 67>> >>,
     plus |-> <<>>, quals |-> << <<AT, 73>> >>] }

\* H VN:Z:1.0 and H VN:Z:1.0.0
GfaHeaders == {
    [k |-> "H", ver |-> <<49, DOT, 48>>],
    [k |-> "H", ver |-> <<49, DOT, 48, DOT, 48>>] }

\* S 11 ACCTT | S 12 TC LN:i:2 | L 11 + 12 - 4M | L 12 - 11 + 5M x
\* | L 11 + 12 - (no CIGAR) | P 14 11+,12- 4M | C 1 + 2 - 0 4M
GfaLines == {
    [k |-> "S", name |-> <<49, 49>>, seq |-> <<65, 67, 67, 84, 84>>,
     opt |-> <<>>],
    [k |-> "S", name |-> <<49, 50>>, seq |-> <<84, 67>>,
     opt |-> <<76, 78, 58, 105, 58, 50>>],
    [k |-> "L", from |-> <<49, 49>>, fo |-> PLUS, to |-> <<49, 50>>,
     too |-> MINUS, cigar |-> <<52, 77>>, opt |-> <<>>],
    [k |-> "L", from |-> <<49, 50>>, fo |-> MINUS, to |-> <<49, 49>>,
     too |-> PLUS, cigar |-> <<53, 77>>, opt |-> <<120>>],
    [k |-> "L", from |-> <<49, 49>>, fo |-> PLUS, to |-> <<49, 50>>,
     too |-> MINUS, cigar |-> <<>>, opt |-> <<>>],
    [k |-> "raw", raw |-> <<80, TAB, 49, 52, TAB, 49, 49, PLUS, 44, 49, 50,
                            MINUS, TAB, 52, 77>>],
    [k |-> "raw", raw |-> <<67, TAB, 49, TAB, PLUS, TAB, 50, TAB, MINUS,
                            TAB, 48, TAB, 52, 77>>] }

PathFa == <<"t", "e", "s", "t", ".", "f", "a">>
PathFq == <<"t", "e", "s", "t", ".", "f", "q">>
PathGfa == <<"t", "e", "s", "t", ".", "g", "f", "a">>
PathF5 == <<"t", "e", "s", "t", ".", "f", "5">>
PathTxt == <<"t", "e", "s", "t", ".", "t", "x", "t">>

default_params ==
    [file_format |-> FNA_UNKNOWN, seq_encode |-> FNA_ASCII, options |-> 0,
     head_margin |-> 0, tail_margin |-> 0,
     seq_head_margin |-> 0, seq_tail_margin |-> 0]

\* the state before fna_init
InitCaller ==
    /\ frame = NULL
    /\ fna = NULL
    /\ pc = "start"
    /\ seq = NULL
    /\ ret = "none"
    /\ out = <<>>
    /\ live = {}
    /\ nblk = 0
    /\ freed = <<>>
    /\ ub = {}

\* FASTA files, read with the default parameters
InitFasta ==
    /\ InitCaller
    /\ path = PathFa
    /\ exists = TRUE
    /\ params = default_params
    /\ entries \in SeqsUpTo(FastaEntries, MaxEntries)
    /\ \E nl \in BOOLEAN : file = FileOf(entries, nl)

SpecFasta == InitFasta /\ [][Next]_vars

\* FASTQ files, read with the quality or without
InitFastq ==
    /\ InitCaller
    /\ path = PathFq
    /\ exists = TRUE
    /\ \E o \in {0, FNA_SKIP_QUAL} :
          params = [default_params EXCEPT !.options = o]
    /\ entries \in SeqsUpTo(FastqEntries, MaxEntries)
    /\ \E nl \in BOOLEAN : file = FileOf(entries, nl)

SpecFastq == InitFastq /\ [][Next]_vars

\* GFA files: a header and lines
InitGfa ==
    /\ InitCaller
    /\ path = PathGfa
    /\ exists = TRUE
    /\ params = default_params
    /\ \E h \in GfaHeaders, ls \in SeqsUpTo(GfaLines, MaxEntries) :
          entries = <<h>> \o ls
    /\ \E nl \in BOOLEAN : file = FileOf(entries, nl)

SpecGfa == InitGfa /\ [][Next]_vars

\* lines that are no GFA lines: X 1 (no such type) | S (no tab after the
\* type) | L 11 | L 11 +x | L 11 + 12 | L 11 + 12 - (a Link cut short)
GfaBroken == {
    [k |-> "raw", raw |-> <<88, TAB, 49>>],
    [k |-> "raw", raw |-> <<83>>],
    [k |-> "raw", raw |-> <<76, TAB, 49, 49>>],
    [k |-> "raw", raw |-> <<76, TAB, 49, 49, TAB, PLUS, 120>>],
    [k |-> "raw", raw |-> <<76, TAB, 49, 49, TAB, PLUS, TAB, 49, 50>>],
    [k |-> "raw", raw |-> <<76, TAB, 49, 49, TAB, PLUS, TAB, 49, 50, TAB,
                            MINUS>>] }

Encodings == {FNA_ASCII, FNA_2BIT, FNA_2BITPACKED, FNA_4BIT, FNA_4BITPACKED}

\* a few of the entries: FASTA a, d (no sequence) and the one with no name;
\* FASTQ c (blank lines), the one with no name and e (quality @I);
\* the GFA header 1.0.0, S 12 TC LN:i:2, L 11 + 12 - 4M and the P line
SomeFasta == {e \in FastaEntries : Len(e.hdr) <= 1}
SomeFastq == {e \in FastqEntries : e.plus = <<>>}
SomeHeaders == {e \in GfaHeaders : Len(e.ver) = 5}
SomeLines ==
    {e \in GfaLines :
        CASE e.k = "S" -> e.opt # <<>>
          [] e.k = "L" -> e.opt = <<>> /\ e.cigar # <<>>
          [] e.k = "raw" -> e.raw[1] = 80}

\* every grammar and every encoding; the GFA files hold valid and broken
\* lines
Init ==
    /\ InitCaller
    /\ exists = TRUE
    /\ \E enc \in Encodings, o \in {0, FNA_SKIP_QUAL} :
          /\ params = [default_params EXCEPT !.seq_encode = enc,
                                             !.options = o]
          /\ IF o = FNA_SKIP_QUAL
             THEN /\ path = PathFq
                  /\ entries \in SeqsUpTo(SomeFastq, MaxEntries)
             ELSE \E p \in {PathFa, PathFq, PathGfa} :
                     /\ path = p
                     /\ entries \in
                           CASE p = PathFa -> SeqsUpTo(SomeFasta, MaxEntries)
                             [] p = PathFq -> SeqsUpTo(SomeFastq, MaxEntries)
                             [] p = PathGfa ->
                                    {<<h>> \o ls :
                                        h \in SomeHeaders,
                                        ls \in SeqsUpTo(
                                                  SomeLines \cup GfaBroken,
                                                  MaxEntries)}
    /\ \E nl \in BOOLEAN : file = FileOf(entries, nl)

Spec == Init /\ [][Next]_vars

\* H VN:Z:0.9.0, a version below the minimum
OldHeader == [k |-> "H", ver |-> <<48, DOT, 57, DOT, 48>>]

\* the files that are opened: an empty file, >a ACGT, a GFA file of version
\* 0.9.0, one of version 1.0.0, a GFA file without a header, and xyz
OpenEntries == {
    << >>,
    << [k |-> "fasta", hdr |-> <<97>>, lines |-> << <<65, 67, 71, 84>> >>] >>,
    << OldHeader,
       [k |-> "S", name |-> <<49, 49>>, seq |-> <<65, 67>>, opt |-> <<>>] >>,
    << [k |-> "H", ver |-> <<49, DOT, 48, DOT, 48>>],
       [k |-> "S", name |-> <<49, 49>>, seq |-> <<65, 67>>, opt |-> <<>>] >>,
    << [k |-> "S", name |-> <<49, 49>>, seq |-> <<65, 67>>, opt |-> <<>>] >>,
    << [k |-> "raw", raw |-> <<120, 121, 122>>] >> }

\* every way to open: a path with a suffix of each grammar or of none, that
\* can be opened or not, the grammar configured or not
InitOpen ==
    /\ InitCaller
    /\ path \in {PathFa, PathFq, PathGfa, PathF5, PathTxt}
    /\ exists \in BOOLEAN
    /\ \E fmt \in {FNA_UNKNOWN, FNA_FASTA, FNA_FAST5, FNA_GFA} :
          params = [default_params EXCEPT !.file_format = fmt]
    /\ entries \in OpenEntries
    /\ file = FileOf(entries, TRUE)

SpecOpen == InitOpen /\ [][Next]_vars

\* the margin parameters: none, each margin alone, values that are no
\* multiple of 16, the largest values
MarginParams == {
    [head_margin |-> 0, tail_margin |-> 0,
     seq_head_margin |-> 0, seq_tail_margin |-> 0],
    [head_margin |-> 16, tail_margin |-> 0,
     seq_head_margin |-> 0, seq_tail_margin |-> 0],
    [head_margin |-> 0, tail_margin |-> 16,
     seq_head_margin |-> 0, seq_tail_margin |-> 0],
    [head_margin |-> 0, tail_margin |-> 0,
     seq_head_margin |-> 16, seq_tail_margin |-> 0],
    [head_margin |-> 0, tail_margin |-> 0,
     seq_head_margin |-> 0, seq_tail_margin |-> 16],
    [head_margin |-> 5, tail_margin |-> 1,
     seq_head_margin |-> 15, seq_tail_margin |-> 9],
    [head_margin |-> 65535, tail_margin |-> 65521,
     seq_head_margin |-> 65535, seq_tail_margin |-> 65535] }

\* the entries the margins are tried on: FASTA a and the one with no name,
\* FASTQ a and b, the GFA lines S 11 ACCTT and L 11 + 12 - 4M
LayoutFasta == {e \in FastaEntries : e.hdr \in {<<97>>, <<>>}}
LayoutFastq == {e \in FastqEntries : e.plus # <<>>}
LayoutLines ==
    {e \in GfaLines :
        e.k \in {"S", "L"} /\ e.opt = <<>>
            /\ (e.k = "L" => e.cigar # <<>>)}

\* every grammar, every encoding and the margin parameters
InitLayout ==
    /\ InitCaller
    /\ exists = TRUE
    /\ \E enc \in Encodings, o \in {0, FNA_SKIP_QUAL}, m \in MarginParams :
          /\ params = [file_format |-> FNA_UNKNOWN, seq_encode |-> enc,
                       options |-> o] @@ m
          /\ IF o = FNA_SKIP_QUAL
             THEN /\ path = PathFq
                  /\ entries \in SeqsUpTo(LayoutFastq, MaxEntries)
             ELSE \E p \in {PathFa, PathFq, PathGfa} :
                     /\ path = p
                     /\ entries \in
                           CASE p = PathFa ->
                                    SeqsUpTo(LayoutFasta, MaxEntries)
                             [] p = PathFq ->
                                    SeqsUpTo(LayoutFastq, MaxEntries)
                             [] p = PathGfa ->
                                    {<<h>> \o ls :
                                        h \in SomeHeaders,
                                        ls \in SeqsUpTo(LayoutLines,
                                                        MaxEntries)}
    /\ file = FileOf(entries, TRUE)

SpecLayout == InitLayout /\ [][Next]_vars

\* base sequences of 0 to 8 bases, some over two lines:
\* (none) | C | GT | ACG | ACGT | AGC | TG CAT | ACGTTGCA | NRYK ac
BaseLines == {
    << >>,
    << <<67>> >>,
    << <<71, 84>> >>,
    << <<65, 67, 71>> >>,
    << <<65, 67, 71, 84>> >>,
    << <<65, 71, 67>> >>,
    << <<84, 71>>, <<67, 65, 84>> >>,
    << <<65, 67, 71, 84, 84, 71, 67, 65>> >>,
    << <<78, 82, 89, 75>>, <<97, 99>> >> }

PackedEntries == {[k |-> "fasta", hdr |-> <<97>>, lines |-> ls] : ls \in BaseLines}

\* FASTA files of base sequences, read with each 2-bit and 4-bit encoding
InitPacked ==
    /\ InitCaller
    /\ path = PathFa
    /\ exists = TRUE
    /\ \E enc \in {FNA_2BIT, FNA_2BITPACKED, FNA_4BIT, FNA_4BITPACKED} :
          params = [default_params EXCEPT !.seq_encode = enc]
    /\ entries \in SeqsUpTo(PackedEntries, MaxEntries)
    /\ \E nl \in BOOLEAN : file = FileOf(entries, nl)

SpecPacked == InitPacked /\ [][Next]_vars

\* the letters the encoders know: A C G T U N and R Y S W K M B D H V
BaseLetters == {65, 67, 71, 84, 85, 78}
AmbiguityLetters == {82, 89, 83, 87, 75, 77, 66, 68, 72, 86}

\* other bytes of a sequence line: 1 3 4 # * - . X
OtherBytes == {49, 51, 52, 35, 42, 45, 46, 88}

\* FASTA files of one entry >a with one byte of sequence, read with each
\* encoding
InitEncode ==
    /\ InitCaller
    /\ path = PathFa
    /\ exists = TRUE
    /\ \E enc \in Encodings : params = [default_params EXCEPT !.seq_encode = enc]
    /\ \E b \in BaseLetters \cup AmbiguityLetters \cup OtherBytes :
          entries = << [k |-> "fasta", hdr |-> <<97>>, lines |-> << <<b>> >>] >>
    /\ \E nl \in BOOLEAN : file = FileOf(entries, nl)

SpecEncode == InitEncode /\ [][Next]_vars

\* n bytes x
Filler(n) == [i \in 1..n |-> 120]

\* the contents the grammar is told from: >a AC | @a AC + II
\* | H VN:Z:1.0.0 S 1 AC | >a@b AC | @a C + >I | H VN:Z:1.0.0 S @ AC
\* | xyz | (empty) | aH<TAB>b | H> | @>H<TAB>
\* | @ and 31 x, then > as byte 33 | > and 30 x, then H as byte 32, <TAB>, >
DetectContents == {
    <<GT, 97, LF, 65, 67>>,
    <<AT, 97, LF, 65, 67, LF, PLUS, LF, 73, 73>>,
    prefix \o <<49, DOT, 48, DOT, 48, LF, 83, TAB, 49, TAB, 65, 67>>,
    <<GT, 97, AT, 98, LF, 65, 67>>,
    <<AT, 97, LF, 67, LF, PLUS, LF, GT, 73>>,
    prefix \o <<49, DOT, 48, DOT, 48, LF, 83, TAB, AT, TAB, 65, 67>>,
    <<120, 121, 122>>,
    << >>,
    <<97, 72, TAB, 98>>,
    <<72, GT>>,
    <<AT, GT, 72, TAB>>,
    <<AT>> \o Filler(31) \o <<GT>>,
    <<GT>> \o Filler(30) \o <<72, TAB, LF, 65>> }

\* every path suffix, the grammar configured or not, every content
InitDetect ==
    /\ InitCaller
    /\ path \in {PathFa, PathFq, PathGfa, PathF5, PathTxt}
    /\ exists = TRUE
    /\ \E fmt \in {FNA_UNKNOWN, FNA_FASTA, FNA_FASTQ, FNA_GFA} :
          params = [default_params EXCEPT !.file_format = fmt]
    /\ \E c \in DetectContents : entries = << [k |-> "raw", raw |-> c] >>
    /\ file = FileOf(entries, FALSE)

SpecDetect == InitDetect /\ [][Next]_vars

\* n in decimal digits
RECURSIVE Dec(_)
Dec(n) == IF n < 10 THEN <<48 + n>> ELSE Dec(n \div 10) \o <<48 + (n % 10)>>

\* the header line of version major.minor.patch, kept with its numbers
VersionHeader(major, minor, patch) ==
    [k |-> "H", ver |-> Dec(major) \o <<DOT>> \o Dec(minor) \o <<DOT>>
                        \o Dec(patch),
     major |-> major, minor |-> minor, patch |-> patch]

VersionHeaders ==
    {VersionHeader(ma, mi, pa) :
        ma \in {0, 1, 2}, mi \in {0, 9, 256}, pa \in {0, 1, 65536}}

\* GFA files with a header of each version, followed by S and L lines
InitVersion ==
    /\ InitCaller
    /\ path = PathGfa
    /\ exists = TRUE
    /\ params = default_params
    /\ \E h \in VersionHeaders, ls \in SeqsUpTo(SomeLines, MaxEntries) :
          entries = <<h>> \o ls
    /\ \E nl \in BOOLEAN : file = FileOf(entries, nl)

SpecVersion == InitVersion /\ [][Next]_vars

\* n times the digit 0
ZeroDigits(n) == [i \in 1..n |-> 48]

\* the header line of a version whose major number is written with n digits
LongHeader(n, major, minor, patch) ==
    [k |-> "H", ver |-> ZeroDigits(n - Len(Dec(major))) \o Dec(major) \o <<DOT>>
                        \o Dec(minor) \o <<DOT>> \o Dec(patch),
     major |-> major, minor |-> minor, patch |-> patch]

\* versions written with leading zeros: 01.00.001, and a major number of
\* 16, 256 and 257 digits
LongHeaders ==
    {[k |-> "H", ver |-> <<48, 49, DOT, 48, 48, DOT, 48, 48, 49>>,
      major |-> 1, minor |-> 0, patch |-> 1]}
    \cup {LongHeader(n, 1, 2, 3) : n \in {SizeofBuf \div 16, SizeofBuf,
                                          SizeofBuf + 1}}

\* sequence lines of bases with white space in them:
\* ACGT | AC<CR> GT<CR> | A<TAB>C | A C | <SP>UN | NN<SP> T
WhiteLines == {
    << <<65, 67, 71, 84>> >>,
    << <<65, 67, CR>>, <<71, 84, CR>> >>,
    << <<65, TAB, 67>> >>,
    << <<65, SP, 67>> >>,
    << <<SP, 85, 78>> >>,
    << <<78, 78, SP>>, <<84>> >> }

WhiteEntries ==
    {[k |-> "fasta", hdr |-> <<97>>, lines |-> ls] : ls \in WhiteLines}
    \cup {[k |-> "fastq", hdr |-> <<97>>, lines |-> ls, plus |-> <<>>,
           quals |-> << <<73, 73>> >>] : ls \in WhiteLines}

\* FASTA and FASTQ files of such entries, read with the ASCII encoding
InitWhite ==
    /\ InitCaller
    /\ exists = TRUE
    /\ params = default_params
    /\ \E p \in {PathFa, PathFq} :
          /\ path = p
          /\ entries \in SeqsUpTo({e \in WhiteEntries :
                                      e.k = IF p = PathFa THEN "fasta"
                                            ELSE "fastq"}, MaxEntries)
    /\ \E nl \in BOOLEAN : file = FileOf(entries, nl)

SpecWhite == InitWhite /\ [][Next]_vars

\* entries that have a name, some without a sequence:
\* >a ACGT | >d | >b TT A and @a ACGT + IIII | @d + | @c <blank> G + <blank> I
NamedEntries == {
    [k |-> "fasta", hdr |-> <<97>>, lines |-> << <<65, 67, 71, 84>> >>],
    [k |-> "fasta", hdr |-> <<100>>, lines |-> << >>],
    [k |-> "fasta", hdr |-> <<SP, 98, SP>>, lines |-> << <<84, 84>>, <<65>> >>],
    [k |-> "fastq", hdr |-> <<97>>, lines |-> << <<65, 67, 71, 84>> >>,
     plus |-> <<>>, quals |-> << <<73, 73, 73, 73>> >>],
    [k |-> "fastq", hdr |-> <<100>>, lines |-> << >>,
     plus |-> <<>>, quals |-> << >>],
    [k |-> "fastq", hdr |-> <<99>>, lines |-> << <<>>, <<71>> >>,
     plus |-> <<>>, quals |-> << <<>>, <<73>> >>] }

\* what a file may end with after its entries: nothing, or the marker of an
\* entry (> or @) followed by blanks only
Endings(marker) == {<< >>, << [k |-> "raw", raw |-> <<marker, SP, TAB>>] >>}

\* FASTA and FASTQ files of such entries, read with the default parameters
InitNamed ==
    /\ InitCaller
    /\ exists = TRUE
    /\ params = default_params
    /\ \E p \in {PathFa, PathFq} :
          /\ path = p
          /\ \E es \in SeqsUpTo({e \in NamedEntries :
                                     e.k = IF p = PathFa THEN "fasta"
                                           ELSE "fastq"}, MaxEntries),
                end \in Endings(IF p = PathFa THEN GT ELSE AT) :
                entries = es \o end
    /\ \E nl \in BOOLEAN :
          /\ nl => \A i \in 1..Len(entries) : entries[i].k # "raw"
          /\ file = FileOf(entries, nl)

SpecNamed == InitNamed /\ [][Next]_vars

\* the header lines whose version fna_parse_version_string is called on
InitParse ==
    /\ InitCaller
    /\ path = PathGfa
    /\ exists = TRUE
    /\ params = default_params
    /\ \E h \in VersionHeaders \cup LongHeaders : entries = <<h>>
    /\ file = FileOf(entries, TRUE)

SpecParse == InitParse /\ [][NextParse]_vars

\* > followed by the byte 0xff and A
RawFf == [k |-> "raw", raw |-> <<GT, 255, 65>>]

\* the files the loops are run on: none or one entry of each grammar, a
\* GFA header and a line, with and without a final line break
InitLoops ==
    /\ InitCaller
    /\ path = PathTxt
    /\ exists = TRUE
    /\ params = default_params
    /\ entries \in {<< >>, <<RawFf>>}
                   \cup {<<e>> : e \in FastaEntries \cup FastqEntries}
                   \cup {<<h, l>> : h \in GfaHeaders, l \in GfaLines}
    /\ \E nl \in BOOLEAN : file = FileOf(entries, nl)

\* the caller is one thread and the calls are synchronous: a loop that can
\* take a step takes it
SpecLoops == InitLoops /\ [][NextLoops]_vars /\ WF_vars(LoopStep)

(***************************************************************************)
(* Properties.                                                             *)
(***************************************************************************)
\* the reader is open: fna_init returned a context that holds the stream
Opened == pc = "open" /\ fna.fp # null

\* the records returned so far are the first records of what the entries
\* of the file are to give, and all of them once fna_read returned absent,
\* which it does with the status FNA_EOF
ReadsEntries(skipq) ==
    /\ IsPrefix(out, Expected(entries, skipq))
    /\ ret = "absent" =>
           /\ Len(out) = Len(Expected(entries, skipq))
           /\ fna.status = FNA_EOF

\* C1: reading a FASTA file with the ASCII encoding returns one Segment per
\* '>' entry, in file order, with the trimmed header line as the name and the
\* sequence lines joined as the sequence, and then absent with status EOF,
\* with or without a final line break.
C1_FastaEntries ==
    (Opened /\ fna.file_format = FNA_FASTA /\ fna.seq_encode = FNA_ASCII)
        => ReadsEntries(FALSE)

\* C2: reading a FASTQ file with the ASCII encoding and the quality wanted
\* returns one Segment per '@' entry, in file order: the trimmed name, the
\* lines up to '+' joined as the sequence, the quality lines joined as the
\* quality, qual_len their number of bytes, the line after '+' in no field;
\* then absent with status EOF.
C2_FastqEntries ==
    (Opened /\ fna.file_format = FNA_FASTQ /\ fna.seq_encode = FNA_ASCII
            /\ fna.options = 0)
        => ReadsEntries(FALSE)

\* C3: reading a GFA file with a valid header returns the S lines as
\* Segments and the L lines as Links, in file order, the C and P lines
\* giving no record, and then absent.
C3_GfaLines ==
    (Opened /\ fna.file_format = FNA_GFA /\ fna.seq_encode = FNA_ASCII)
        => /\ IsPrefix(out, Expected(entries, FALSE))
           /\ ret = "absent" => Len(out) = Len(Expected(entries, FALSE))

\* C4: whenever fna_read on an open reader returns absent, the status of
\* the reader is FNA_EOF or FNA_ERROR_BROKEN_FORMAT, for every grammar.
C4_AbsentStatus ==
    (Opened /\ ret = "absent")
        => fna.status \in {FNA_EOF, FNA_ERROR_BROKEN_FORMAT}

\* a read of a GFA file in a packed encoding came to a line that is no line
C4_Witness ==
    /\ Opened
    /\ ret = "absent"
    /\ fna.status = FNA_ERROR_BROKEN_FORMAT
    /\ fna.seq_encode = FNA_2BITPACKED
    /\ out # <<>>

\* C5: a failed fna_init returns a context whose status tells the failure:
\* FNA_ERROR_FILE_OPEN when the path cannot be opened,
\* FNA_ERROR_UNKNOWN_FORMAT when no grammar is resolved or it is FAST5,
\* FNA_ERROR_UNSUPPORTED_VERSION when the GFA header version is too old.
C5_FailedInitStatus ==
    (pc = "open" /\ fna.fp = null) =>
        /\ fna # NULL
        /\ ~exists => fna.status = FNA_ERROR_FILE_OPEN
        /\ (exists /\ fna.file_format \in {FNA_UNKNOWN, FNA_FAST5})
               => fna.status = FNA_ERROR_UNKNOWN_FORMAT
        /\ (exists /\ fna.file_format = FNA_GFA /\ entries # <<>>
                   /\ entries[1] = OldHeader)
               => fna.status = FNA_ERROR_UNSUPPORTED_VERSION

\* what reading the whole file with the quality wanted returns
WithQuality ==
    ReadAll(file,
            fna_init(path, exists, [params EXCEPT !.options = 0], file,
                     FNA_SUCCESS, <<NUL>>).fna,
            NUL)

\* C6: with FNA_SKIP_QUAL every FASTQ record has qual_len 0 and a qual that
\* points to a zero byte among the bytes written for the record; the names
\* and sequences, their number and their order are those read with the
\* quality.
C6_SkipQual ==
    (Opened /\ fna.file_format = FNA_FASTQ /\ fna.options = FNA_SKIP_QUAL)
        => /\ seq # NULL =>
                  /\ seq.qual_len = 0
                  /\ ByteAt(seq, seq.qual) = NUL
           /\ Len(out) <= Len(WithQuality)
           /\ \A i \in 1..Len(out) :
                  /\ out[i].name = WithQuality[i].name
                  /\ out[i].seq = WithQuality[i].seq
                  /\ out[i].seq_len = WithQuality[i].seq_len
           /\ ret = "absent" => Len(out) = Len(WithQuality)

\* C7: fna_seq_free of a record passes one address to free(), the start of
\* the block of the record, under every margin and every encoding.
C7_FreeOneBlock ==
    freed # <<>> => (Len(freed) = 1 /\ freed[1].off = 0)

\* C8: once every record is freed and the reader is closed, no block is
\* left allocated and none was released twice.
C8_NoLeak ==
    (pc = "closed" /\ seq = NULL)
        => (live = {} /\ "invalid_free" \notin ub)

\* C9: in every Segment the name starts right after the head margin and
\* the header, the sequence starts seq_head_margin bytes after the zero
\* byte that ends the name, where its first byte was stored, and the bytes
\* of the two margins are zero.
C9_SegmentLayout ==
    (seq # NULL /\ seq.type = FNA_SEGMENT) =>
        /\ seq.name = seq.head_margin + SizeofSeqIntl
        /\ seq.name = seq.name_at
        /\ seq.seq = seq.name + seq.name_len + 1 + seq.seq_head_margin
        /\ seq.seq = seq.seq_at
        /\ \A i \in 0..(seq.head_margin - 1) : ByteAt(seq, i) = 0
        /\ \A i \in 0..(seq.seq_head_margin - 1) :
               ByteAt(seq, seq.name + seq.name_len + 1 + i) = 0

\* a FASTQ Segment in a packed encoding behind a head margin and a margin
\* before its sequence
C9_Witness ==
    /\ seq # NULL
    /\ seq.type = FNA_SEGMENT
    /\ seq.head_margin = 16
    /\ seq.seq_head_margin = 16
    /\ seq.seq_encode = FNA_4BITPACKED
    /\ seq.seq_len > 0
    /\ seq.qual_len > 0

\* k is the smallest multiple of 16 that is at least m
IsRoundup(k, m) == k % 16 = 0 /\ k >= m /\ k < m + 16

\* C10: each margin kept in the reader is the smallest multiple of 16 that
\* is at least the value of the parameter, for every value 0..65535.
C10_MarginRoundup ==
    pc = "open" =>
        /\ IsRoundup(fna.head_margin, params.head_margin)
        /\ IsRoundup(fna.tail_margin, params.tail_margin)
        /\ IsRoundup(fna.seq_head_margin, params.seq_head_margin)
        /\ IsRoundup(fna.seq_tail_margin, params.seq_tail_margin)

\* the record fna_read has just returned, as the same file gives it when it
\* is read with the encoding enc
SameRecordAs(enc) ==
    ReadAll(file,
            fna_init(path, exists, [params EXCEPT !.seq_encode = enc], file,
                     FNA_SUCCESS, <<NUL>>).fna, NUL)[Len(out)]

\* element i (from 1) of the packed sequence of record s, w bits an element,
\* the low bits of a byte first
Unpack(s, i, w) ==
    (ByteAt(s, s.seq + ((i - 1) * w) \div 8) \div (2 ^ (((i - 1) * w) % 8)))
        % (2 ^ w)

\* C11: a sequence of L bases read with the 2-bit-packed encoding has
\* seq_len L, and its packed bytes read 2 bits at a time, low bits first,
\* are the codes the unpacked 2-bit encoding gives for the same input
C11_Packed2Bit ==
    (Opened /\ seq # NULL /\ fna.seq_encode = FNA_2BITPACKED)
        => /\ seq.seq_len = SameRecordAs(FNA_2BIT).seq_len
           /\ \A i \in 1..SameRecordAs(FNA_2BIT).seq_len :
                 Unpack(seq, i, 2) = SameRecordAs(FNA_2BIT).seq[i]

\* a 2-bit-packed record of 5 bases over two lines: a full byte and a
\* partial group
C11_Witness ==
    /\ Opened /\ seq # NULL /\ fna.seq_encode = FNA_2BITPACKED
    /\ seq.seq_len = 5
    /\ Len(entries[Len(out)].lines) = 2
    /\ ByteAt(seq, seq.seq) # 0 /\ ByteAt(seq, seq.seq + 1) # 0

\* the bases of the entry the last returned record was read from
BasesRead == Flatten(entries[Len(out)].lines)

\* ceil(n / d)
CeilDiv(n, d) == (n + d - 1) \div d

\* C12: for a sequence of L bases the packed reader appends exactly
\* ceil(L/4) bytes to the record with the 2-bit-packed encoding and
\* exactly ceil(L/2) bytes with the 4-bit-packed encoding
C12_PackedBytes ==
    (Opened /\ seq # NULL)
        => /\ fna.seq_encode = FNA_2BITPACKED
                => seq.qual_at - seq.seq_at = CeilDiv(Len(BasesRead), 4)
           /\ fna.seq_encode = FNA_4BITPACKED
                => seq.qual_at - seq.seq_at = CeilDiv(Len(BasesRead), 2)

\* C13: a sequence of L bases read with the 4-bit-packed encoding has
\* seq_len L, its packed bytes read 4 bits at a time, low nibble first, are
\* the codes of the unpacked 4-bit encoding, and the byte of a final single
\* base holds the code of that base only
C13_Packed4Bit ==
    (Opened /\ seq # NULL /\ fna.seq_encode = FNA_4BITPACKED)
        => /\ seq.seq_len = SameRecordAs(FNA_4BIT).seq_len
           /\ \A i \in 1..SameRecordAs(FNA_4BIT).seq_len :
                 Unpack(seq, i, 4) = SameRecordAs(FNA_4BIT).seq[i]
           /\ seq.seq_len % 2 = 1
                => ByteAt(seq, seq.seq + seq.seq_len \div 2)
                       = SameRecordAs(FNA_4BIT).seq[seq.seq_len]

\* the one sequence byte of the file, and the byte it was encoded to
TheBase == entries[1].lines[1][1]
TheCode == ByteAt(seq, seq.seq)

\* the 2-bit code of a letter
Code2(l) ==
    CASE l = 65 -> 0 [] l = 67 -> 1 [] l = 71 -> 2 [] l = 84 -> 3
      [] l = 85 -> 3 [] l = 78 -> 0

\* the bases a letter stands for
StandsFor(l) ==
    CASE l = 65 -> {65} [] l = 67 -> {67} [] l = 71 -> {71}
      [] l = 84 -> {84} [] l = 85 -> {84} [] l = 78 -> {}
      [] l = 82 -> {65, 71}          \* R
      [] l = 89 -> {67, 84}          \* Y
      [] l = 83 -> {71, 67}          \* S
      [] l = 87 -> {65, 84}          \* W
      [] l = 75 -> {71, 84}          \* K
      [] l = 77 -> {65, 67}          \* M
      [] l = 66 -> {67, 71, 84}      \* B
      [] l = 68 -> {65, 71, 84}      \* D
      [] l = 72 -> {65, 67, 84}      \* H
      [] l = 86 -> {65, 67, 71}      \* V

\* the 4-bit code of a letter: the flags 1, 2, 4, 8 of its bases, ORed
Code4(l) ==
    (IF 65 \in StandsFor(l) THEN 1 ELSE 0)
    + (IF 67 \in StandsFor(l) THEN 2 ELSE 0)
    + (IF 71 \in StandsFor(l) THEN 4 ELSE 0)
    + (IF 84 \in StandsFor(l) THEN 8 ELSE 0)

\* C14: the 2-bit encoder maps A C G T U N to 0 1 2 3 3 0; the 4-bit
\* encoder maps A C G T U to 1 2 4 8 8, each ambiguity letter to the OR of
\* the codes of the bases it stands for, and N to 0
C14_EncoderTables ==
    (Opened /\ seq # NULL)
        => /\ (fna.seq_encode = FNA_2BIT /\ TheBase \in BaseLetters)
                => TheCode = Code2(TheBase)
           /\ (fna.seq_encode = FNA_4BIT
                    /\ TheBase \in BaseLetters \cup AmbiguityLetters)
                => TheCode = Code4(TheBase)

\* the letter R read with the 4-bit encoding: A | G
C14_Witness ==
    /\ Opened /\ seq # NULL /\ fna.seq_encode = FNA_4BIT
    /\ TheBase = 82 /\ TheCode = 5 /\ seq.seq_len = 1

\* C15: a data byte of a sequence that is no base letter and no ambiguity
\* letter is encoded as 0 by the 2-bit and by the 4-bit encoder
C15_OtherBytesZero ==
    (Opened /\ seq # NULL /\ fna.seq_encode \in {FNA_2BIT, FNA_4BIT}
        /\ TheBase \in OtherBytes)
        => TheCode = 0

\* the grammar of the suffix of a path of the model, none for test.txt
SuffixGrammar ==
    CASE path = PathFa -> FNA_FASTA
      [] path = PathFq -> FNA_FASTQ
      [] path = PathF5 -> FNA_FAST5
      [] path = PathGfa -> FNA_GFA
      [] OTHER -> FNA_UNKNOWN

\* C16: a configured grammar is used whatever the suffix and the content
\* are; without one, the grammar of a recognized suffix is used whatever
\* the content is (the content decides only when neither does)
C16_Precedence ==
    (pc = "open" /\ exists)
        => /\ params.file_format # FNA_UNKNOWN
                => fna.file_format = params.file_format
           /\ (params.file_format = FNA_UNKNOWN
                    /\ SuffixGrammar # FNA_UNKNOWN)
                => fna.file_format = SuffixGrammar

\* test.fa that holds FASTQ text is opened as FASTA
C16_Witness ==
    /\ Opened /\ path = PathFa /\ params.file_format = FNA_UNKNOWN
    /\ file # <<>> /\ file[1] = AT
    /\ fna.file_format = FNA_FASTA

\* C17: with no configured grammar and no recognized suffix, a file whose
\* first byte is > is FASTA and a file that starts with H<TAB>VN:Z:1.0 is
\* GFA, whatever bytes follow
C17_FirstBytesDecide ==
    (pc = "open" /\ exists /\ params.file_format = FNA_UNKNOWN
        /\ SuffixGrammar = FNA_UNKNOWN)
        => /\ (file # <<>> /\ file[1] = GT) => fna.file_format = FNA_FASTA
           /\ IsPrefix(prefix \o <<49, DOT, 48>>, file)
                => fna.file_format = FNA_GFA

\* the bytes that are peeked, and the positions among them that hold >, @
\* or H with a TAB after it (a TAB beyond the peeked bytes is not seen)
Peeked == SubSeq(file, 1, IF Len(file) < 32 THEN Len(file) ELSE 32)

Marks ==
    {i \in 1..Len(Peeked) :
        \/ Peeked[i] \in {GT, AT}
        \/ Peeked[i] = 72 /\ i + 1 <= Len(Peeked) /\ Peeked[i + 1] = TAB}

LastMark == CHOOSE i \in Marks : \A j \in Marks : j <= i

\* C18: when the content decides, every peeked byte (at most 32) is
\* looked at and the grammar is that of the last position holding >, @ or
\* H followed by TAB; with no such position the open fails with
\* unknown-format
C18_LastMatchDecides ==
    (pc = "open" /\ exists /\ params.file_format = FNA_UNKNOWN
        /\ SuffixGrammar = FNA_UNKNOWN)
        => IF Marks = {}
           THEN fna.fp = null /\ fna.status = FNA_ERROR_UNKNOWN_FORMAT
           ELSE fna.file_format =
                    CASE Peeked[LastMark] = GT -> FNA_FASTA
                      [] Peeked[LastMark] = AT -> FNA_FASTQ
                      [] OTHER -> FNA_GFA

\* >a@b: the @ after the > makes the file FASTQ
C18_Witness ==
    /\ Opened /\ params.file_format = FNA_UNKNOWN /\ path = PathTxt
    /\ Len(file) > 2 /\ file[1] = GT /\ file[3] = AT
    /\ fna.file_format = FNA_FASTQ

\* C19: a GFA file whose header version has major = 0 is not opened and
\* the status is unsupported-version, for any minor and patch; one whose
\* version has major >= 1 is opened
C19_VersionCheck ==
    (pc = "open" /\ exists /\ entries[1].k = "H")
        => /\ entries[1].major = 0
                => /\ fna.fp = null
                   /\ fna.status = FNA_ERROR_UNSUPPORTED_VERSION
           /\ entries[1].major >= 1 => fna.fp # null

\* the same without the status: only whether the file is opened
C19_VersionOpens ==
    (pc = "open" /\ exists /\ entries[1].k = "H")
        => (entries[1].major = 0 <=> fna.fp = null)

\* the file without the columns that follow the sequence of its S lines,
\* and the records read from it with the same parameters
WithoutColumns ==
    FileOf([i \in 1..Len(entries) |->
               IF entries[i].k = "S" THEN [entries[i] EXCEPT !.opt = <<>>]
               ELSE entries[i]],
           file[Len(file)] = LF)

RecordsWithoutColumns ==
    ReadAll(WithoutColumns,
            fna_init(path, exists, params, WithoutColumns, FNA_SUCCESS,
                     <<NUL>>).fna, NUL)

\* C20: in every encoding, an S line with extra columns after the sequence
\* gives the Segment of its name and sequence, as if the columns were not
\* there, and the next read starts at the following line: the records are
\* those of the file without the columns, and the end of the file is found
C20_ExtraColumns ==
    (/\ Opened /\ fna.file_format = FNA_GFA
     /\ \A i \in 1..Len(entries) : entries[i] \notin GfaBroken
     /\ \E i \in 1..Len(entries) :
            entries[i].k = "S" /\ entries[i].opt # <<>>)
        => /\ IsPrefix(out, RecordsWithoutColumns)
           /\ ret = "absent"
                => /\ Len(out) = Len(RecordsWithoutColumns)
                   /\ fna.status = FNA_EOF

\* s without its white space bytes (newline, carriage return, tab, space)
RECURSIVE NoWhite(_)
NoWhite(s) ==
    IF s = <<>> THEN <<>>
    ELSE IF Head(s) \in {LF, CR, TAB, SP} THEN NoWhite(Tail(s))
    ELSE <<Head(s)>> \o NoWhite(Tail(s))

\* C21: for FASTA and FASTQ sequence lines of A C G T U N, the ASCII read
\* returns the bases in input order with every white space byte (newline,
\* carriage return, tab, space) removed, and seq_len is the number of bases
C21_WhitespaceRemoved ==
    (Opened /\ seq # NULL /\ fna.seq_encode = FNA_ASCII)
        => /\ Bytes(seq, seq.seq, seq.seq_len)
                  = NoWhite(Flatten(entries[Len(out)].lines))
           /\ seq.seq_len = Len(NoWhite(Flatten(entries[Len(out)].lines)))

\* from the position pos of the stream on, the file holds no byte of a
\* name: nothing, or only bytes that are skipped in front of a name
NoNameLeft(pos) ==
    \A i \in (pos + 1)..Len(file) : file[i] \in {NUL, SP, TAB, VT}

\* a call of fna_read on an open reader
ReadStep == pc = "open" /\ pc' = "open" /\ seq = NULL /\ fna.fp # null

\* C22: in the FASTA and FASTQ drivers fna_read returns absent exactly
\* when the stream is exhausted before a byte of a name is read; an entry
\* with a name and no sequence, in the middle or at the end, is returned
\* as a record with seq_len 0 and the entries after it are returned too
C22_AbsentOnlyAtEnd ==
    /\ [](Opened => ReadsEntries(FALSE))
    /\ [][ReadStep => (ret' = "absent" <=> NoNameLeft(fna.st.pos))]_vars

\* a name-only entry in the middle was returned and the end was reached
C22_Witness ==
    /\ Opened /\ ret = "absent" /\ Len(out) = 2
    /\ out[1].name = <<100>> /\ out[1].seq_len = 0 /\ out[2].seq_len > 0

Minimum(S) == CHOOSE x \in S : \A y \in S : x <= y

\* the tables fna_read_ascii is called with
FieldTables == {"delim_line", "delim_gfa_field"}

\* the positions after pos of the bytes that are not skipped in front of a
\* field, and of the bytes at or after i that end a field of the table t
NonSkipAfter(pos) == {i \in (pos + 1)..Len(file) : space_table(file[i]) # 1}
TerminatorsFrom(t, i) == {j \in i..Len(file) : delim(t, file[j]) # 0}

\* the byte that is to end the field read at pos: the first terminator at
\* or after the first byte that is not skipped, EOF where there is none
TerminatorAt(t, pos) ==
    IF NonSkipAfter(pos) = {} \/ TerminatorsFrom(t, Minimum(NonSkipAfter(pos))) = {}
    THEN char(EOF)
    ELSE char(file[Minimum(TerminatorsFrom(t, Minimum(NonSkipAfter(pos))))])

\* r: what fna_read_ascii returned for the table t at the position pos
IsField(r, t, pos) ==
    /\ \A i \in 1..r.len : delim(t, r.v[i]) = 0
    /\ r.len > 0 => space_table(r.v[1]) # 1 /\ space_table(r.v[r.len]) # 1
    /\ Len(r.v) = r.len + 1 /\ r.v[r.len + 1] = NUL
    /\ r.c = TerminatorAt(t, pos)

\* C23: the field fna_read_ascii returns holds no byte its table classifies
\* as a terminator, begins and ends with a byte that is not skipped, is
\* followed by one zero byte, and the terminating byte reported is the
\* first terminator at or after the first byte that is not skipped, or EOF
C23_FieldOfTokenizer ==
    Opened => \A t \in FieldTables :
                  IsField(fna_read_ascii(file, fna.st, t), t, fna.st.pos)

\* the first line after the header is an L line without a CIGAR
EmptyCigarFirst ==
    /\ Len(entries) >= 2
    /\ entries[2].k = "L"
    /\ entries[2].cigar = <<>>

\* C24: a GFA L line with an empty CIGAR column gives a Link with
\* cigar_len 0, no byte of the line after it is consumed with it, and the
\* next fna_read returns the record of the line after it
C24_EmptyCigar ==
    (Opened /\ fna.file_format = FNA_GFA /\ EmptyCigarFirst /\ out # <<>>)
        => /\ out[1].type = FNA_LINK
           /\ out[1].cigar_len = 0
           /\ out[1].cigar = <<>>
           /\ Len(out) = 1 =>
                  fna.st.pos <= Len(FileOf(SubSeq(entries, 1, 2), TRUE))
           /\ IsPrefix(out, Expected(entries, FALSE))

\* C25: a FASTQ record read with the quality wanted has its quality view at
\* the first stored quality element, and the qual_len elements there are
\* the quality characters of the entry, for every encoding and every
\* margin configuration
C25_QualityView ==
    (Opened /\ seq # NULL /\ fna.file_format = FNA_FASTQ /\ fna.options = 0)
        => /\ seq.qual = seq.qual_at
           /\ seq.qual_len = Len(Flatten(entries[Len(out)].quals))
           /\ Bytes(seq, seq.qual, seq.qual_len)
                  = Flatten(entries[Len(out)].quals)

\* the same for the ASCII encoding with no margin after the sequence
C25_QualityViewAscii ==
    (Opened /\ seq # NULL /\ fna.file_format = FNA_FASTQ /\ fna.options = 0
            /\ fna.seq_encode = FNA_ASCII /\ fna.seq_tail_margin = 0)
        => /\ seq.qual = seq.qual_at
           /\ seq.qual_len = Len(Flatten(entries[Len(out)].quals))
           /\ Bytes(seq, seq.qual, seq.qual_len)
                  = Flatten(entries[Len(out)].quals)

\* fna_read has returned absent with the status FNA_EOF
AtEnd == Opened /\ seq = NULL /\ ret = "absent" /\ fna.status = FNA_EOF

\* C26: once fna_read has returned absent with the status FNA_EOF, the
\* next fna_read on the reader, and so every later one, returns absent with
\* the status FNA_EOF, for every grammar
C26_StickyEof ==
    AtEnd => \A uc \in UninitC :
                 /\ read(file, fna, uc).r = NULL
                 /\ read(file, fna, uc).status = FNA_EOF

\* the end of a GFA file was reached after a record was returned
C26_Witness ==
    AtEnd /\ fna.file_format = FNA_GFA /\ out # <<>>

\* the same at the end of a FASTA file and of a FASTQ file
C26_WitnessFasta == AtEnd /\ fna.file_format = FNA_FASTA /\ out # <<>>
C26_WitnessFastq == AtEnd /\ fna.file_format = FNA_FASTQ /\ out # <<>>

\* C27: fna_read on the context of a failed fna_init returns absent: it
\* neither dispatches through a driver that was not set nor reads from the
\* stream the failed fna_init released
C27_ReadAfterFailedInit ==
    /\ "call_unset_driver" \notin ub
    /\ "read_null_stream" \notin ub
    /\ (pc = "open" /\ fna.fp = null /\ ret # "none") => ret = "absent"

\* the part of it on the stream alone
C27_NoReadOfNullStream == "read_null_stream" \notin ub

\* fna_parse_version_string has returned
ParseReturned ==
    /\ frame # NULL /\ frame.fn = "fna_parse_version_string"
    /\ frame.at = "returned"

\* C28: for a version written as major.minor.patch in decimal digits, with
\* or without leading zeros, fna_parse_version_string stores nothing
\* outside of buf and returns major * 65536 + minor * 256 + patch
C28_VersionValue ==
    /\ "version_buf_overflow" \notin ub
    /\ ParseReturned =>
           frame.result = entries[1].major * 65536
                          + entries[1].minor * 256 + entries[1].patch

\* the value returned alone
C28_ValueReturned ==
    (ParseReturned /\ "version_buf_overflow" \notin ub) =>
        frame.result = entries[1].major * 65536
                       + entries[1].minor * 256 + entries[1].patch

\* the statements and the operator fna_parse_version_string agree on the
\* versions of up to 16 characters
C28_SameAsOperator ==
    (ParseReturned /\ frame.end <= 16) =>
        frame.result = fna_parse_version_string(frame.mem, 1).v

\* C29: fna_parse_version_string reads no byte behind the terminating NUL
\* of its string, whether the version has three components or fewer
C29_NoOverread == "version_overread" \notin ub

\* the loop of the frame has ended
LoopDone == frame # NULL /\ frame.at = "done"

\* the next zfgetc of the loop returns EOF
NextIsEof == frame # NULL /\ zfgetc(file, frame.st).c = EOF

\* a round of the loop of fna_read_gfa that is followed by another one
GfaRoundGoesOn ==
    /\ InLoop("fna_read_gfa", "while")
    /\ frame'.at = "fna_read_skip"

\* C30: on a finite file whose stream returns EOF after the last byte every
\* loop that reads the stream ends: a tokenizer loop is left by the step
\* that reads EOF, a round of the loop of fna_read_gfa that is followed by
\* another one has consumed a byte, and every loop that was entered is done
\* after finitely many steps
C30_Terminates ==
    /\ [][NextIsEof => frame'.at # frame.at]_vars
    /\ [][GfaRoundGoesOn => frame'.st.pos > frame.st.pos]_vars
    /\ (frame # NULL) ~> LoopDone

\* the _fetch of a packed reader was left at the end of the file
C30_Witness ==
    /\ LoopDone /\ frame.fn = "_fetch"
    /\ frame.st.eof /\ frame.st.pos = Len(file) /\ Len(file) > 0

====
